---- MODULE Spec2Model ----
(***************************************************************************)
(* svelte-adapter-bun: the development WebSocket bridge                    *)
(* (src/dev/websocket-server.js, here src/unnamed/part_013), the           *)
(* BunWebSocketShim connection handle and its process-wide topic registry  *)
(* (src/src/dev/websocket-shim.js).                                        *)
(*                                                                         *)
(* The transport is the Node `ws` library: a server-side WebSocket is OPEN *)
(* when wss.handleUpgrade hands it to its callback, ws.close() moves it to *)
(* CLOSING, ws.terminate() moves it to CLOSING and destroys the socket,    *)
(* and the 'close' event is emitted with readyState already CLOSED.        *)
(* Listeners of one event run synchronously in registration order.         *)
(***************************************************************************)
EXTENDS Integers, Sequences, FiniteSets, TLC

\* ------------------------------------------------------------ bounds
\* Upgrade requests that reach the http server.
MaxReq == 2
\* Connections that are established when the shim and the event
\* specifications start.
MaxConn == 3
\* Transport events (message, close) delivered to established connections.
MaxEvents == 2
\* the largest indexed file size, in bytes
MaxSize == 3

\* ------------------------------------------------- program constants
CONNECTING == 0
OPEN == 1
CLOSING == 2
CLOSED == 3

\* ------------------------------------------------------ input domains
Topics == {"room", "chat"}
\* sec-websocket-protocol of an upgrade request.
Protocols == {"vite-hmr", "chat"}
\* req.socket.remoteAddress: a string, or undefined.
Undefined == "undefined"
Addresses == {"10.0.0.1", Undefined}
\* The data option the user's upgrade() passes to server.upgrade().
UpgradeDatas == {"abc123", Undefined}
\* What a user upgrade(request, server) callback can do: call
\* server.upgrade(request, {data}) or not, then return a Response, return
\* anything else (undefined included), or throw.
UpgradeResults == {"Response", "other", "throw"}
UpgradeBehaviours ==
    [calls : {TRUE}, data : UpgradeDatas, result : UpgradeResults]
        \cup [calls : {FALSE}, data : {Undefined}, result : UpgradeResults]
\* A module without an upgrade export, or one that failed to load, runs no
\* upgrade callback.
NoBehaviour == [calls |-> FALSE, data |-> Undefined, result |-> "other"]
BehavioursOf(mod) == IF mod = "hasUpgrade" THEN UpgradeBehaviours ELSE {NoBehaviour}
\* What importFresh(websocketPath) resolves to in handleUpgrade.
UpgradeModules == {"fail", "noUpgrade", "hasUpgrade"}
\* Transport-level message events: (data, isBinary).
Payloads ==
    { [isBinary |-> FALSE, bytes |-> <<104, 105>>],
      [isBinary |-> TRUE, bytes |-> <<222, 173>>] }
\* Transport-level close events: (code, reason).
CloseEvents ==
    { [code |-> 1000, reason |-> "done"], [code |-> 1006, reason |-> ""] }
\* Data handed to send()/publish() by user code.
Datas == { <<104, 105>> }
\* How a dispatched callback job ends: the re-import fails, the module has
\* no such export, the callback returns, throws, or returns a promise that
\* rejects.
DispatchResults == {"importFail", "noCallback", "returns", "throws", "rejects"}

VARIABLES
    importCounter,  \* part_013:5
    reqs,           \* per upgrade request: handleUpgrade's locals and the socket
    shims,          \* BunWebSocketShim instances, in construction order
    readyState,     \* ws.readyState of the transport behind each shim
    topicRegistry,  \* websocket-shim.js:3  Map<string, Set<shim>>
    jobs,           \* pending importFresh() promise chains, in call order
    last,           \* what the latest settled chain did to the user module
    wsSent,         \* frames the latest call on a shim handed to ws.send()
    uncaught,       \* an exception or rejection escaped the bridge
    wsCalls,        \* ws methods other than send the latest shim call invoked
    ret,            \* what the latest send() or publish() returned
    pub,            \* the publish() call wsSent and ret come from, if any
    binaryType,     \* ws.binaryType of the transport behind each shim
    lastBinary,     \* the latest read or write of a shim's binaryType
    file,           \* handler.js:120  the index entry of the requested path
    request,        \* the request headers the static responder reads
    response,       \* what handle(request) returned
    dir,            \* handler.js:91  the directory on disk sirv is built over
    files,          \* handler.js:95  the index: Map from '/' + rel to its entry
    responder,      \* which function sirv(dir, opts) returned, if it has run
    fetches,        \* handler.js:320  the production httpserver's calls
    route,          \* handler.js:347  the responder chain's latest request
    proc,           \* part_015:100  the production process and its shutdowns
    plugin          \* part_012:26   the lifecycle plugin's module state

vars ==
    << importCounter, reqs, shims, readyState, topicRegistry, jobs, last,
       wsSent, uncaught, wsCalls, ret, pub, binaryType, lastBinary,
       file, request, response, dir, files, responder, fetches, route, proc, plugin >>

\* What the production handler and its static responders read and return;
\* the development bridge never touches it.
staticVars == << file, request, response, dir, files, responder, fetches, route >>

\* The state of the WebSocket bridge and shims; the static responder never
\* touches it.
wsVars ==
    << importCounter, reqs, shims, readyState, topicRegistry, jobs, last,
       wsSent, uncaught, wsCalls, ret, pub, binaryType, lastBinary >>

binaryVars == << binaryType, lastBinary >>

\* The process-level lifecycle: production shutdown and the dev plugin.
hostVars == << proc, plugin >>

Handles == 1..Len(shims)

\* ------------------------------------------------------ topic registry
EmptyRegistry == [t \in {} |-> {}]

\* Map.set(topic, subs)
RegSet(reg, t, subs) ==
    [x \in DOMAIN reg \cup {t} |-> IF x = t THEN subs ELSE reg[x]]

\* Map.delete(topic)
RegDelete(reg, t) == [x \in DOMAIN reg \ {t} |-> reg[x]]

\* subscribe(topic)
ShimSubscribe(reg, h, t) ==
    LET reg1 == IF t \in DOMAIN reg THEN reg ELSE RegSet(reg, t, {})
    IN RegSet(reg1, t, reg1[t] \cup {h})

\* A plausible slip: the set is emptied of the handle but never deleted.
ShimUnsubscribeKeepEmpty(reg, h, t) ==
    IF t \notin DOMAIN reg THEN reg ELSE RegSet(reg, t, reg[t] \ {h})

\* unsubscribe(topic)
ShimUnsubscribe(reg, h, t) ==
    IF t \notin DOMAIN reg
    THEN reg
    ELSE LET reg1 == RegSet(reg, t, reg[t] \ {h})
         IN IF Cardinality(reg1[t]) = 0 THEN RegDelete(reg1, t) ELSE reg1

\* isSubscribed(topic)
IsSubscribed(reg, h, t) == IF t \in DOMAIN reg THEN h \in reg[t] ELSE FALSE

\* #cleanup(): the loop over the registry's entries.
RECURSIVE CleanupLoop(_, _, _)
CleanupLoop(reg, todo, h) ==
    IF todo = {}
    THEN reg
    ELSE LET t == CHOOSE x \in todo : TRUE
             reg1 == RegSet(reg, t, reg[t] \ {h})
             reg2 == IF Cardinality(reg1[t]) = 0 THEN RegDelete(reg1, t) ELSE reg1
         IN CleanupLoop(reg2, todo \ {t}, h)

\* A cleanup that drops every topic the handle is in, other members
\* included.
ShimCleanupDropsTopics(reg, h) ==
    [t \in {u \in DOMAIN reg : h \notin reg[u]} |-> reg[t]]

ShimCleanup(reg, h) == CleanupLoop(reg, DOMAIN reg, h)

\* ------------------------------------------------------------ binaryType
NoBinary == [op |-> "none", h |-> 0, value |-> Undefined]

\* A new transport starts with ws's default binaryType.
BinaryIdle ==
    /\ binaryType = [c \in DOMAIN shims |-> "nodebuffer"]
    /\ lastBinary = NoBinary

\* A getter that hands the transport's value through.
ShimGetBinaryTypeRaw(t) == t

\* get binaryType()
ShimGetBinaryType(t) == IF t = "nodebuffer" \/ t = "fragments" THEN "uint8array" ELSE t

\* set binaryType(value): what is stored in ws.binaryType
ShimSetBinaryType(value) == IF value = "uint8array" THEN "nodebuffer" ELSE value

\* ------------------------------------------------------- send / publish
\* No publish() call: the latest call on a shim was another method.
NoPub == [p |-> 0, t |-> "", d |-> << >>]

BagAdd(b, h) ==
    [x \in DOMAIN b \cup {h} |->
        (IF x \in DOMAIN b THEN b[x] ELSE 0) + (IF x = h THEN 1 ELSE 0)]

EmptyBag == [h \in {} |-> 0]

\* A send() that returns 1 for a frame sent instead of the data's length.
ShimSendCountsOne(rs, sent, h, d) ==
    IF rs[h] # OPEN
    THEN [sent |-> sent, ret |-> 0]
    ELSE [sent |-> BagAdd(sent, h), ret |-> 1]

\* send(data): [sent |-> frames handed to ws.send, ret |-> the return value]
ShimSend(rs, sent, h, d) ==
    IF rs[h] # OPEN
    THEN [sent |-> sent, ret |-> 0]
    ELSE [sent |-> BagAdd(sent, h), ret |-> Len(d)]

\* A plausible slip: the publisher is not skipped.
RECURSIVE PublishLoopSelf(_, _, _, _, _)
PublishLoopSelf(rs, todo, p, d, acc) ==
    IF todo = {}
    THEN acc
    ELSE LET shim == CHOOSE x \in todo : TRUE
             r == ShimSend(rs, acc.sent, shim, d)
             acc1 == IF rs[shim] # OPEN
                     THEN acc
                     ELSE [sent |-> r.sent, ret |-> acc.ret + r.ret]
         IN PublishLoopSelf(rs, todo \ {shim}, p, d, acc1)

\* A plausible slip: the loop stops at the first subscriber it cannot send
\* to instead of going on to the next.
RECURSIVE PublishLoopAbort(_, _, _, _, _)
PublishLoopAbort(rs, todo, p, d, acc) ==
    IF todo = {}
    THEN acc
    ELSE LET shim == CHOOSE x \in todo : TRUE
             r == ShimSend(rs, acc.sent, shim, d)
         IN IF shim = p
            THEN PublishLoopAbort(rs, todo \ {shim}, p, d, acc)
            ELSE IF rs[shim] # OPEN
                 THEN acc
                 ELSE PublishLoopAbort(rs, todo \ {shim}, p, d,
                                       [sent |-> r.sent, ret |-> acc.ret + r.ret])

\* publish(): the loop over the topic's subscriber set.
RECURSIVE PublishLoop(_, _, _, _, _)
PublishLoop(rs, todo, p, d, acc) ==
    IF todo = {}
    THEN acc
    ELSE LET shim == CHOOSE x \in todo : TRUE
             r == ShimSend(rs, acc.sent, shim, d)
             acc1 == IF shim = p
                     THEN acc
                     ELSE IF rs[shim] # OPEN
                          THEN acc
                          ELSE [sent |-> r.sent, ret |-> acc.ret + r.ret]
         IN PublishLoop(rs, todo \ {shim}, p, d, acc1)

\* publish(topic, data)
ShimPublish(reg, rs, p, t, d) ==
    IF t \notin DOMAIN reg
    THEN [sent |-> EmptyBag, ret |-> 0]
    ELSE PublishLoop(rs, reg[t], p, d, [sent |-> EmptyBag, ret |-> 0])

\* ------------------------------------------------------- the bridge
NoArg == [type |-> "none", bytes |-> <<>>, code |-> 0, reason |-> ""]

\* One importFresh() call and the promise chain that hangs off it; id is
\* the counter value in the module URL.
NewJob(id, kind, target, arg) ==
    [id |-> id, kind |-> kind, target |-> target, arg |-> arg]

RemoveAt(seq, i) == SubSeq(seq, 1, i - 1) \o SubSeq(seq, i + 1, Len(seq))

\* An upgrade request: its protocol header, the transport's address, what
\* became of its socket, what the bridge decided, and what the user's
\* upgrade() did (called server.upgrade or not, and with which data).
IdleReq ==
    [state |-> "idle", proto |-> "none", addr |-> Undefined, socket |-> "none",
     called |-> FALSE, payload |-> Undefined]

NoLast ==
    [id |-> 0, kind |-> "none", h |-> 0, arg |-> NoArg, called |-> FALSE,
     logged |-> FALSE]

\* A bridge that takes every upgrade request, vite-hmr included.
SkipsNothing(proto) == FALSE

\* if (req.headers['sec-websocket-protocol'] === 'vite-hmr') return;
SkipsHmr(proto) == proto = "vite-hmr"

\* A fake server that drops the data of the upgrade call.
FakeServerUpgradeDropsData(data) == "{}"

\* server.upgrade(request, opts) of the fake server: opts?.data ?? {}
FakeServerUpgrade(data) == IF data = Undefined THEN "{}" ELSE data

\* A catch that logs and leaves the socket as it is.
CatchLeavesSocket == FALSE

\* } catch (e) { console.error(...); socket.destroy(); }
CatchDestroysSocket == TRUE

\* if (!shouldUpgrade) { if (result instanceof Response) socket.destroy(); return; }
NotUpgradedDestroysSocket(result) == result = "Response"

\* A bridge that does nothing for a module without upgrade().
AutoIgnores == FALSE

\* else { wss.handleUpgrade(...) }: a module without upgrade() is accepted.
AutoUpgrades == TRUE

\* handleUpgrade after `await importFresh(websocketPath)`: what the try/catch
\* decides for a module `mod` whose upgrade callback behaves as `beh`.
HandleUpgradeBody(mod, beh) ==
    LET shouldUpgrade == mod = "hasUpgrade" /\ beh.calls
        upgradeData == IF shouldUpgrade THEN FakeServerUpgrade(beh.data) ELSE "{}"
    IN CASE mod = "fail" ->
              [state |-> "importFailed", accept |-> FALSE, data |-> Undefined,
               destroy |-> CatchDestroysSocket]
         [] mod = "noUpgrade" ->
              [state |-> "auto", accept |-> AutoUpgrades, data |-> Undefined,
               destroy |-> FALSE]
         [] mod = "hasUpgrade" /\ beh.result = "throw" ->
              [state |-> "threw", accept |-> FALSE, data |-> Undefined,
               destroy |-> CatchDestroysSocket]
         [] mod = "hasUpgrade" /\ beh.result # "throw" /\ ~shouldUpgrade ->
              [state |-> "rejected", accept |-> FALSE, data |-> Undefined,
               destroy |-> NotUpgradedDestroysSocket(beh.result)]
         [] OTHER ->
              [state |-> "accepted", accept |-> TRUE, data |-> upgradeData,
               destroy |-> FALSE]

\* req.socket.remoteAddress || '127.0.0.1'
RemoteAddressOf(addr) == IF addr = Undefined THEN "127.0.0.1" ELSE addr

\* new BunWebSocketShim(ws, { data, remoteAddress }); req is the upgrade
\* request whose socket the ws took over (0: a ws wrapped directly).
NewShim(r, data, remoteAddress) ==
    [req |-> r,
     data |-> IF data = Undefined THEN "{}" ELSE data,
     remoteAddress |-> IF remoteAddress = Undefined THEN "127.0.0.1" ELSE remoteAddress]

\* The shims the wss.handleUpgrade callback constructs for request r.
UpgradeCallbackShims(r, data, addr) == << NewShim(r, data, RemoteAddressOf(addr)) >>

\* setupHandlers: the open dispatch issued when the handlers are wired.
SetupHandlersJobs(id, h) == << NewJob(id + 1, "open", h, NoArg) >>

\* isBinary ? toArrayBuffer(data) : data.toString()
ToMessage(p) ==
    IF p.isBinary
    THEN [type |-> "ArrayBuffer", bytes |-> p.bytes, code |-> 0, reason |-> ""]
    ELSE [type |-> "string", bytes |-> p.bytes, code |-> 0, reason |-> ""]

\* A message listener registered twice.
OnMessageJobsTwice(id, h, p) ==
    << [id |-> id + 1, kind |-> "message", target |-> h,
        arg |-> [type |-> "string", bytes |-> p.bytes, code |-> 0, reason |-> ""]],
       [id |-> id + 1, kind |-> "message", target |-> h,
        arg |-> [type |-> "string", bytes |-> p.bytes, code |-> 0, reason |-> ""]] >>

\* ws.on('message', ...) of setupHandlers
OnMessageJobs(id, h, p) == << NewJob(id + 1, "message", h, ToMessage(p)) >>

\* ws.on('close', ...) of setupHandlers: (code, reason.toString())
OnCloseJobs(id, h, ev) ==
    << NewJob(id + 1, "close", h,
              [type |-> "none", bytes |-> <<>>, code |-> ev.code, reason |-> ev.reason]) >>

\* The ws 'close' listener the shim's constructor registers: #cleanup.
OnCloseRegistry(reg, h) == ShimCleanup(reg, h)

\* A chain without .catch: the rejection escapes.
CatchRethrows(job) == [logged |-> FALSE, escapes |-> TRUE]

\* .catch(e => console.error(...))
CatchRejection(job) == [logged |-> TRUE, escapes |-> FALSE]

\* .then(handler => handler.cb?.(shim, ...)).catch(...): what the chain of
\* `job` does once its import settled as `res`.
DispatchJob(job, res) ==
    LET called == res \in {"returns", "throws", "rejects"}
        failed == res \in {"importFail", "throws", "rejects"}
        c == IF failed THEN CatchRejection(job) ELSE [logged |-> FALSE, escapes |-> FALSE]
    IN [last |-> [id |-> job.id, kind |-> job.kind, h |-> job.target,
                  arg |-> IF called THEN job.arg ELSE NoArg,
                  called |-> called, logged |-> c.logged],
        escapes |-> c.escapes]

\* ------------------------------------------------ the static responder
\* Header values and bodies are sequences of characters and of bytes; a
\* header that is absent reads as null.
Null == << "null" >>

DigitChars == << "0", "1", "2", "3", "4", "5", "6", "7", "8", "9" >>

IsDigit(c) == \E i \in 1..10 : DigitChars[i] = c

DigitVal(c) == (CHOOSE i \in 1..10 : DigitChars[i] = c) - 1

\* parseInt(digits, 10) of a match of \d+
RECURSIVE ParseInt(_)
ParseInt(ds) ==
    IF ds = << >>
    THEN 0
    ELSE ParseInt(SubSeq(ds, 1, Len(ds) - 1)) * 10 + DigitVal(ds[Len(ds)])

\* String(n) and `${n}` of a non-negative integer
RECURSIVE ToDigits(_)
ToDigits(n) ==
    IF n < 10
    THEN << DigitChars[n + 1] >>
    ELSE ToDigits(n \div 10) \o << DigitChars[(n % 10) + 1] >>

\* String.prototype.includes
Includes(str, sub) ==
    \E i \in 1..(Len(str) - Len(sub) + 1) : SubSeq(str, i, i + Len(sub) - 1) = sub

\* The length of the run of digits of str that starts at position i.
RECURSIVE DigitRun(_, _)
DigitRun(str, i) ==
    IF i <= Len(str) /\ IsDigit(str[i]) THEN 1 + DigitRun(str, i + 1) ELSE 0

BytesEq == << "b", "y", "t", "e", "s", "=" >>

\* /bytes=(\d+)-(\d*)/ matches at position i of str.
RangeMatchAt(str, i) ==
    /\ i + 5 <= Len(str)
    /\ SubSeq(str, i, i + 5) = BytesEq
    /\ DigitRun(str, i + 6) >= 1
    /\ i + 6 + DigitRun(str, i + 6) <= Len(str)
    /\ str[i + 6 + DigitRun(str, i + 6)] = "-"

\* range_header.match(/bytes=(\d+)-(\d*)/): the leftmost match, its groups.
RangeMatch(str) ==
    IF \E i \in 1..Len(str) : RangeMatchAt(str, i)
    THEN LET i == CHOOSE j \in 1..Len(str) :
                      RangeMatchAt(str, j) /\ \A k \in 1..(j - 1) : ~RangeMatchAt(str, k)
             n == DigitRun(str, i + 6)
             m == DigitRun(str, i + 7 + n)
         IN [matched |-> TRUE,
             start |-> SubSeq(str, i + 6, i + 5 + n),
             end |-> SubSeq(str, i + 7 + n, i + 6 + n + m)]
    ELSE [matched |-> FALSE, start |-> << >>, end |-> << >>]

\* `W/"${stats.size}-${mtime}"`
Etag(size, mtime) ==
    << "W", "/", "\"" >> \o ToDigits(size) \o << "-" >> \o ToDigits(mtime) \o << "\"" >>

\* new Date(file.mtime).toUTCString(), kept as the date of that instant.
HttpDate(mtime) == << "d", "a", "t", "e", " " >> \o ToDigits(mtime)

TextPlain == << "t", "e", "x", "t", "/", "p", "l", "a", "i", "n" >>
StrBr == << "b", "r" >>
StrGzip == << "g", "z", "i", "p" >>
VaryValue == << "A", "c", "c", "e", "p", "t", "-", "E", "n", "c", "o", "d", "i", "n", "g" >>
Immutable == << "i", "m", "m", "u", "t", "a", "b", "l", "e" >>

\* The entry files.set('/' + rel, {...}) stores; immutable tells whether the
\* path starts with /_app/immutable/.
FileEntry(size, mtime, use_etag, has_br, has_gz, immutable) ==
    [size |-> size, mtime |-> mtime,
     etag |-> IF use_etag THEN Etag(size, mtime) ELSE Null,
     type |-> TextPlain, has_br |-> has_br, has_gz |-> has_gz,
     immutable |-> immutable]

\* Headers.set and Headers.delete
HeadersSet(h, k, v) == [x \in DOMAIN h \cup {k} |-> IF x = k THEN v ELSE h[x]]
HeadersDelete(h, k) == [x \in DOMAIN h \ {k} |-> h[x]]
HeadersGet(h, k) == IF k \in DOMAIN h THEN h[k] ELSE Null

\* The bytes Bun.file(path) reads: the file's own, or a sibling's.
FileBytes(f, path) ==
    CASE path = "abs" -> [i \in 1..f.size |-> i - 1]
      [] path = "abs.br" -> << 255 >>
      [] path = "abs.gz" -> << 254, 253 >>

\* A slice that takes the end as inclusive and so loses the last byte.
SliceShort(bytes, start, end) == SubSeq(bytes, start + 1, end - 1)

\* Blob.slice(start, end): end exclusive, clamped to the size.
Slice(bytes, start, end) ==
    SubSeq(bytes, start + 1, IF end > Len(bytes) THEN Len(bytes) ELSE end)

NoBody == [present |-> FALSE, bytes |-> << >>]
Body(bytes) == [present |-> TRUE, bytes |-> bytes]

\* setHeaders(headers, pathname) of the client responder
SetHeaders(h, f) ==
    IF f.immutable THEN HeadersSet(h, "Cache-Control", Immutable) ELSE h

\* The headers built before the conditional check.
BaseHeaders(f) ==
    LET h0 == [k \in {"Content-Type", "Content-Length", "Last-Modified"} |->
                  CASE k = "Content-Type" -> f.type
                    [] k = "Content-Length" -> ToDigits(f.size)
                    [] k = "Last-Modified" -> HttpDate(f.mtime)]
        h1 == IF f.etag # Null THEN HeadersSet(h0, "ETag", f.etag) ELSE h0
    IN SetHeaders(h1, f)

\* A responder without the conditional check.
NotModifiedNever(f, req) == FALSE

\* if (file.etag) { if (if_none_match === file.etag) return 304 }
NotModified(f, req) == f.etag # Null /\ req.ifNoneMatch = f.etag

\* Content negotiation for precompressed files.
Negotiate(f, req, h) ==
    LET accept_encoding == IF req.acceptEncoding = Null THEN << >> ELSE req.acceptEncoding
    IN IF f.has_br /\ Includes(accept_encoding, StrBr)
       THEN [serve_path |-> "abs.br", content_encoding |-> StrBr,
             headers |-> HeadersDelete(HeadersSet(HeadersSet(h, "Content-Encoding", StrBr),
                                                  "Vary", VaryValue), "Content-Length")]
       ELSE IF f.has_gz /\ Includes(accept_encoding, StrGzip)
       THEN [serve_path |-> "abs.gz", content_encoding |-> StrGzip,
             headers |-> HeadersDelete(HeadersSet(HeadersSet(h, "Content-Encoding", StrGzip),
                                                  "Vary", VaryValue), "Content-Length")]
       ELSE IF f.has_br \/ f.has_gz
       THEN [serve_path |-> "abs", content_encoding |-> Null,
             headers |-> HeadersSet(h, "Vary", VaryValue)]
       ELSE [serve_path |-> "abs", content_encoding |-> Null, headers |-> h]

\* `bytes */${file.size}`
UnsatisfiedRange(size) == << "b", "y", "t", "e", "s", " ", "*", "/" >> \o ToDigits(size)

\* `bytes ${start}-${end}/${file.size}`
ContentRange(start, end, size) ==
    << "b", "y", "t", "e", "s", " " >> \o ToDigits(start) \o << "-" >>
        \o ToDigits(end) \o << "/" >> \o ToDigits(size)

\* A check that forgets the end of the range.
UnsatisfiableStartOnly(start, end, size) == start >= size

\* if (start >= file.size || end >= file.size || start > end)
Unsatisfiable(start, end, size) == start >= size \/ end >= size \/ start > end

\* A range step that does not look at the selected encoding.
RangeOrFullAnyEncoding(f, req, neg) ==
    LET bytes == FileBytes(f, neg.serve_path)
        match == RangeMatch(req.range)
        start == ParseInt(match.start)
        end == IF match.end # << >> THEN ParseInt(match.end) ELSE f.size - 1
    IN IF req.range # Null /\ req.range # << >> /\ match.matched
       THEN IF Unsatisfiable(start, end, f.size)
            THEN [status |-> 416,
                  headers |-> [k \in {"Content-Range"} |-> UnsatisfiedRange(f.size)],
                  body |-> NoBody]
            ELSE [status |-> 206,
                  headers |-> HeadersSet(neg.headers, "Content-Range",
                                         ContentRange(start, end, f.size)),
                  body |-> Body(Slice(bytes, start, end + 1))]
       ELSE [status |-> 200, headers |-> neg.headers, body |-> Body(bytes)]

\* The range step and the default response, after negotiation chose `neg`.
RangeOrFull(f, req, neg) ==
    LET full == [status |-> 200, headers |-> neg.headers,
                 body |-> Body(FileBytes(f, neg.serve_path))]
        match == RangeMatch(req.range)
        start == ParseInt(match.start)
        end == IF match.end # << >> THEN ParseInt(match.end) ELSE f.size - 1
    IN IF req.range # Null /\ req.range # << >> /\ neg.content_encoding = Null
       THEN IF match.matched
            THEN IF Unsatisfiable(start, end, f.size)
                 THEN [status |-> 416,
                       headers |-> [k \in {"Content-Range"} |-> UnsatisfiedRange(f.size)],
                       body |-> NoBody]
                 ELSE [status |-> 206,
                       headers |-> HeadersSet(
                                      HeadersSet(neg.headers, "Content-Range",
                                                 ContentRange(start, end, f.size)),
                                      "Content-Length", ToDigits(end - start + 1)),
                       body |-> Body(Slice(FileBytes(f, neg.serve_path), start, end + 1))]
            ELSE full
       ELSE full

\* handle(request) for a path the index has.
Handle(f, req) ==
    LET headers == BaseHeaders(f)
    IN IF NotModified(f, req)
       THEN [status |-> 304, headers |-> headers, body |-> NoBody]
       ELSE RangeOrFull(f, req, Negotiate(f, req, headers))

NoFile == FileEntry(0, 0, FALSE, FALSE, FALSE, FALSE)
NoRequest == [ifNoneMatch |-> Null, acceptEncoding |-> Null, range |-> Null]
NoResponse == [status |-> 0, headers |-> [k \in {} |-> << >>], body |-> NoBody]

\* ------------------------------------------------ the directory index
\* A directory on disk is a function from entry names to nodes; a node is a
\* file with its stats or a directory with its entries.  Names and paths are
\* sequences of characters.
Missing == [kind |-> "missing"]
FileNode(size, mtime) == [kind |-> "file", size |-> size, mtime |-> mtime]
DirNode(entries) == [kind |-> "dir", entries |-> entries]

DotBr == << ".", "b", "r" >>
DotGz == << ".", "g", "z" >>

\* String.prototype.endsWith
EndsWith(str, suffix) ==
    /\ Len(str) >= Len(suffix)
    /\ SubSeq(str, Len(str) - Len(suffix) + 1, Len(str)) = suffix

\* prefix ? prefix + '/' + entry : entry
Rel(prefix, entry) == IF prefix # << >> THEN prefix \o << "/" >> \o entry ELSE entry

\* totalist(dir, callback, prefix): the (rel, stats) pairs the callback is
\* called with, one for every entry below dir that is not a directory.
RECURSIVE totalist(_, _)
totalist(entries, prefix) ==
    UNION {IF entries[e].kind = "dir"
           THEN totalist(entries[e].entries, Rel(prefix, e))
           ELSE {[rel |-> Rel(prefix, e), stats |-> entries[e]]} : e \in DOMAIN entries}

\* Every path below dir, files and directories alike: what statSync finds.
RECURSIVE StatPaths(_, _)
StatPaths(entries, prefix) ==
    UNION {{Rel(prefix, e)} \cup
           (IF entries[e].kind = "dir"
            THEN StatPaths(entries[e].entries, Rel(prefix, e))
            ELSE {}) : e \in DOMAIN entries}

\* An index build that skips .br siblings only.
SkipsOnlyBr(rel) == EndsWith(rel, DotBr)

\* if (rel.endsWith('.br') || rel.endsWith('.gz')) return;
SkipsPrecompressed(rel) == EndsWith(rel, DotBr) \/ EndsWith(rel, DotGz)

EmptyIndex == [k \in {} |-> NoFile]

\* The Map the callback of sirv fills: '/' + rel of every file that is not
\* skipped, with its stats, validator and sibling flags.
BuildIndex(entries, use_etag) ==
    LET found == {c \in totalist(entries, << >>) : ~SkipsPrecompressed(c.rel)}
        stat == StatPaths(entries, << >>)
        entryOf(key) ==
            LET c == CHOOSE x \in found : << "/" >> \o x.rel = key
            IN FileEntry(c.stats.size, c.stats.mtime, use_etag,
                         (c.rel \o DotBr) \in stat, (c.rel \o DotGz) \in stat, FALSE)
    IN [key \in {<< "/" >> \o c.rel : c \in found} |-> entryOf(key)]

\* null, the not-found signal: no Response; the caller goes on to its next
\* responder and answers 404 when none has the path.
NullSignal == [status |-> 404, headers |-> [k \in {} |-> << >>], body |-> NoBody]

\* A build that walks the directory without asking whether it exists.
SirvWalksMissing(d, use_etag) ==
    IF d = Missing
    THEN [responder |-> "threw", files |-> EmptyIndex]
    ELSE [responder |-> "handle", files |-> BuildIndex(d.entries, use_etag)]

\* sirv(dir, opts): the function it returns and the index that function
\* closes over.
Sirv(d, use_etag) ==
    IF d = Missing
    THEN [responder |-> "null", files |-> EmptyIndex]
    ELSE [responder |-> "handle", files |-> BuildIndex(d.entries, use_etag)]

\* What the function sirv returned answers to a request.
Respond(resp, index, req) ==
    IF resp = "null"
    THEN NullSignal
    ELSE IF req.pathname \in DOMAIN index
         THEN Handle(index[req.pathname], req)
         ELSE NullSignal

IndexIdle ==
    /\ dir = Missing
    /\ files = EmptyIndex
    /\ responder = "none"

\* ------------------------------------------- the production fetch handler
\* One call of httpserver(request, bun_server): whether it took the upgrade
\* branch, what the user module was and did, whether Bun upgraded the
\* connection, what the upgrade branch returned, and which responder after
\* the branch was handed the request.
IdleFetch ==
    [state |-> "idle", ws |-> FALSE, mod |-> "none", beh |-> NoBehaviour,
     upgraded |-> FALSE, returned |-> "none", answeredBy |-> "none"]

\* connection?.includes('upgrade') && upgrade === 'websocket', both lowered
ConnectionHeaders == {Undefined, "keep-alive", "Upgrade", "keep-alive, Upgrade"}
UpgradeHeaders == {Undefined, "websocket", "WebSocket", "h2c"}
IsUpgradeRequest(connection, upgrade) ==
    /\ connection \in {"Upgrade", "keep-alive, Upgrade"}
    /\ upgrade \in {"websocket", "WebSocket"}

\* The responders after the upgrade branch: client assets, a prerendered
\* page, the trailing-slash redirect, the application.
Responders == {"client", "prerendered", "redirect", "app"}

\* The try block of the upgrade branch after `await import(websocket_path)`.
\* bun_server.upgrade() upgrades the connection when it is called; the
\* request is a well-formed handshake, so it returns true.
ProdUpgradeBody(mod, beh, truthy) ==
    CASE mod = "fail" ->
            [upgraded |-> FALSE, returned |-> "none"]
      [] mod = "noUpgrade" ->
            [upgraded |-> TRUE, returned |-> "undefined"]
      [] mod = "hasUpgrade" /\ beh.result = "throw" ->
            [upgraded |-> beh.calls, returned |-> "none"]
      [] mod = "hasUpgrade" /\ (beh.result = "Response" \/ truthy) ->
            [upgraded |-> beh.calls, returned |-> "result"]
      [] OTHER ->
            [upgraded |-> beh.calls, returned |-> "none"]

ProdIdle == fetches = [websocket |-> FALSE, reqs |-> [r \in 1..MaxReq |-> IdleFetch]]

\* ------------------------------------- the responders below the upgrade
\* handler.js:347-375 with the manifest's base_path and prerendered set;
\* client and pages are the keys of the two sirv indexes.
MaxPath == 5
PathChars == {"/", "a", "p"}
Slash == << "/" >>

NoRoute ==
    [base |-> << >>, prerendered |-> {}, client |-> {}, pages |-> {},
     pathname |-> << >>, search |-> << >>, by |-> "none", status |-> 0,
     location |-> Null]

StartsWith(str, prefix) ==
    /\ Len(prefix) <= Len(str)
    /\ SubSeq(str, 1, Len(prefix)) = prefix

\* if (base_path && path.startsWith(base_path))
\*     path = path.slice(base_path.length) || '/'
StripBase(base, pathname) ==
    IF base # << >> /\ StartsWith(pathname, base)
    THEN LET rest == SubSeq(pathname, Len(base) + 1, Len(pathname))
         IN IF rest = << >> THEN Slash ELSE rest
    ELSE pathname

\* A toggle that only ever appends the slash.
ToggledAppends(path) == path \o Slash

\* path.endsWith('/') ? path.slice(0, -1) : path + '/'
Toggled(path) ==
    IF EndsWith(path, Slash) THEN SubSeq(path, 1, Len(path) - 1) ELSE path \o Slash

\* httpserver below the upgrade branch: who answers, and the redirect.
ServeChain(rt, pathname, search) ==
    LET path == StripBase(rt.base, pathname)
        toggled == Toggled(path)
    IN IF path \in rt.client
       THEN [by |-> "client", status |-> 0, location |-> Null]
       ELSE IF path \in rt.prerendered /\ path \in rt.pages
       THEN [by |-> "prerendered", status |-> 0, location |-> Null]
       ELSE IF toggled \in rt.prerendered
       THEN [by |-> "redirect", status |-> 308,
             location |-> (IF rt.base # << >> THEN rt.base \o toggled ELSE toggled)
                             \o search]
       ELSE [by |-> "app", status |-> 0, location |-> Null]

\* ------------------------------------------------ the lifecycle plugin
\* Two httpServers, as in a dev-server restart; two functions user code
\* registers as process listeners; the events it registers them for.
Servers == {"A", "B"}
Fns == {"f", "g"}
Startup == "sveltekit:startup"
Shutdown == "sveltekit:shutdown"
ProcessEvents == {Startup, Shutdown, "exit"}

\* event.startsWith('sveltekit:')
StartsWithSveltekit(event) == event \in {Startup, Shutdown}

NoCall == [via |-> "none", args |-> Undefined]
NoListener == [event |-> "none", last |-> NoCall]
NoServer == [wired |-> FALSE, listening |-> FALSE, shutting_down |-> FALSE,
             closes |-> 0, shutdowns |-> 0, emit |-> "none", ws |-> "none"]
EmptySticky == [e \in {} |-> Undefined]

\* The module state of plugin.js and what the process holds for it: the
\* plugin's websocket option, whether process.on is patched, sticky_events, the wired servers, the
\* registered listeners with their latest call, the nextTick queue; and,
\* as history, the arguments of the last emit of each event, whether a
\* shutdown emit has completed, and whether a server was wired after that.
NoPlugin ==
    [websocket |-> FALSE, installed |-> FALSE, sticky_events |-> EmptySticky,
     servers |-> [s \in Servers |-> NoServer],
     listeners |-> [fn \in Fns |-> NoListener],
     ticks |-> << >>,
     lastEmit |-> EmptySticky, completed |-> FALSE, rewired |-> FALSE]

MapSet(m, k, v) == [x \in DOMAIN m \cup {k} |-> IF x = k THEN v ELSE m[x]]

\* emit_and_await(event, ...args): every listener of the event is called.
EmitToListeners(ls, event, args) ==
    [fn \in Fns |-> IF ls[fn].event = event
                    THEN [ls[fn] EXCEPT !.last = [via |-> "emit", args |-> args]]
                    ELSE ls[fn]]

\* sticky_emit(event, ...args) up to its await
StickyEmit(pl, event, args) ==
    [pl EXCEPT !.sticky_events = MapSet(@, event, args),
               !.lastEmit = MapSet(@, event, args),
               !.listeners = EmitToListeners(@, event, args)]

\* maybe_replay(event, fn): the nextTick callbacks it queues.
MaybeReplay(pl, event, fn) ==
    IF StartsWithSveltekit(event) /\ event \in DOMAIN pl.sticky_events
    THEN << [fn |-> fn, event |-> event, args |-> pl.sticky_events[event]] >>
    ELSE << >>

\* An uninstall that clears the map and leaves process.on patched.
UninstallKeepsPatch(pl) ==
    [pl EXCEPT !.sticky_events = EmptySticky]

\* uninstall_sticky()
UninstallSticky(pl) ==
    [pl EXCEPT !.installed = FALSE, !.sticky_events = EmptySticky]

\* A close listener without the guard.
NeverShuttingDown(server) == FALSE

\* if (shutting_down) return;
AlreadyShuttingDown(server) == server.shutting_down

\* No production process and no lifecycle plugin.
HostIdle ==
    /\ proc = [listeners |-> << >>, runs |-> << >>, trace |-> << >>, exited |-> FALSE]
    /\ plugin = NoPlugin
    /\ route = NoRoute

Init ==
    /\ importCounter = 0
    /\ reqs = [r \in 1..MaxReq |-> IdleReq]
    /\ shims = <<>>
    /\ readyState = <<>>
    /\ topicRegistry = EmptyRegistry
    /\ jobs = <<>>
    /\ last = NoLast
    /\ wsSent = EmptyBag
    /\ uncaught = FALSE
    /\ wsCalls = {}
    /\ ret = 0
    /\ pub = NoPub
    /\ file = NoFile
    /\ request = NoRequest
    /\ response = NoResponse
    /\ IndexIdle
    /\ ProdIdle
    /\ BinaryIdle
    /\ HostIdle

\* httpServer 'upgrade' event: handleUpgrade up to its first await.
UpgradeRequest(r, proto, addr) ==
    /\ ~uncaught
    /\ reqs[r].state = "idle"
    /\ \A q \in 1..(r - 1) : reqs[q].state # "idle"
    /\ IF SkipsHmr(proto)
       THEN /\ reqs' = [reqs EXCEPT ![r] =
                          [@ EXCEPT !.state = "skipped", !.proto = proto,
                                    !.addr = addr, !.socket = "raw"]]
            /\ UNCHANGED << importCounter, jobs >>
       ELSE /\ importCounter' = importCounter + 1
            /\ jobs' = Append(jobs, NewJob(importCounter + 1, "upgrade", r, NoArg))
            /\ reqs' = [reqs EXCEPT ![r] =
                          [@ EXCEPT !.state = "importing", !.proto = proto,
                                    !.addr = addr, !.socket = "raw"]]
    /\ UNCHANGED << shims, readyState, topicRegistry, last, wsSent, uncaught,
                    wsCalls, ret >>
    /\ UNCHANGED staticVars
    /\ UNCHANGED hostVars
    /\ UNCHANGED binaryVars
    /\ UNCHANGED pub

\* handleUpgrade resumes: the import settled, the user's upgrade() ran, and
\* the socket is upgraded, destroyed or left alone.
UpgradeImported(i, mod, beh) ==
    /\ ~uncaught
    /\ i \in 1..Len(jobs)
    /\ jobs[i].kind = "upgrade"
    /\ LET r == jobs[i].target
           out == HandleUpgradeBody(mod, beh)
           made == IF out.accept
                   THEN UpgradeCallbackShims(r, out.data, reqs[r].addr)
                   ELSE <<>>
           newJobs == IF Len(made) > 0
                      THEN SetupHandlersJobs(importCounter, Len(shims) + 1)
                      ELSE <<>>
       IN /\ reqs' = [reqs EXCEPT ![r] =
                        [@ EXCEPT !.state = out.state,
                                  !.called = (mod = "hasUpgrade" /\ beh.calls),
                                  !.payload = IF mod = "hasUpgrade" /\ beh.calls
                                              THEN beh.data ELSE Undefined,
                                  !.socket = IF out.accept THEN "upgraded"
                                             ELSE IF out.destroy THEN "destroyed"
                                             ELSE @]]
          /\ shims' = shims \o made
          /\ readyState' = readyState \o [k \in 1..Len(made) |-> OPEN]
          /\ jobs' = RemoveAt(jobs, i) \o newJobs
          /\ importCounter' = importCounter + Len(newJobs)
    /\ UNCHANGED << topicRegistry, last, wsSent, uncaught, wsCalls, ret >>
    /\ UNCHANGED staticVars
    /\ UNCHANGED hostVars
    /\ binaryType' = binaryType \o [k \in 1..(Len(shims') - Len(shims)) |-> "nodebuffer"]
    /\ UNCHANGED lastBinary
    /\ UNCHANGED pub

\* The import behind an open/message/close dispatch settles; the user
\* callback, if the module has it, is called; a failure reaches .catch.
Dispatch(i, res) ==
    /\ ~uncaught
    /\ i \in 1..Len(jobs)
    /\ jobs[i].kind # "upgrade"
    /\ LET d == DispatchJob(jobs[i], res)
       IN /\ last' = d.last
          /\ uncaught' = d.escapes
    /\ jobs' = RemoveAt(jobs, i)
    /\ UNCHANGED << importCounter, reqs, shims, readyState, topicRegistry, wsSent,
                    wsCalls, ret >>
    /\ UNCHANGED staticVars
    /\ UNCHANGED hostVars
    /\ UNCHANGED binaryVars
    /\ UNCHANGED pub

\* ws 'message' event of a connection the bridge accepted.
TransportMessage(h, p) ==
    /\ ~uncaught
    /\ h \in Handles
    /\ readyState[h] \in {OPEN, CLOSING}
    /\ importCounter < 2 * MaxConn + MaxEvents
    /\ LET new == OnMessageJobs(importCounter, h, p)
       IN /\ importCounter' = importCounter + Len(new)
          /\ jobs' = jobs \o new
    /\ UNCHANGED << reqs, shims, readyState, topicRegistry, last, wsSent, uncaught,
                    wsCalls, ret >>
    /\ UNCHANGED staticVars
    /\ UNCHANGED hostVars
    /\ UNCHANGED binaryVars
    /\ UNCHANGED pub

\* ws 'close' event of a connection the bridge accepted: the peer's close
\* frame, the end of a local close() or terminate(), or an abrupt
\* disconnect. The shim's listener runs first, then the bridge's.
TransportClose(h, ev) ==
    /\ ~uncaught
    /\ h \in Handles
    /\ readyState[h] # CLOSED
    /\ importCounter < 2 * MaxConn + MaxEvents
    /\ readyState' = [readyState EXCEPT ![h] = CLOSED]
    /\ topicRegistry' = OnCloseRegistry(topicRegistry, h)
    /\ LET new == OnCloseJobs(importCounter, h, ev)
       IN /\ importCounter' = importCounter + Len(new)
          /\ jobs' = jobs \o new
    /\ UNCHANGED << reqs, shims, last, wsSent, uncaught, wsCalls, ret >>
    /\ UNCHANGED staticVars
    /\ UNCHANGED hostVars
    /\ UNCHANGED binaryVars
    /\ UNCHANGED pub

\* The chain of job i settles with a module whose callback calls
\* ws.subscribe(t) on the handle it is given and returns.
CallbackSubscribes(i, t) ==
    /\ ~uncaught
    /\ i \in 1..Len(jobs)
    /\ jobs[i].kind # "upgrade"
    /\ LET d == DispatchJob(jobs[i], "returns")
       IN /\ last' = d.last
          /\ uncaught' = d.escapes
    /\ jobs' = RemoveAt(jobs, i)
    /\ topicRegistry' = ShimSubscribe(topicRegistry, jobs[i].target, t)
    /\ wsSent' = EmptyBag
    /\ wsCalls' = {}
    /\ ret' = 0
    /\ pub' = NoPub
    /\ UNCHANGED << importCounter, reqs, shims, readyState >>
    /\ UNCHANGED staticVars
    /\ UNCHANGED hostVars
    /\ UNCHANGED binaryVars

\* ------------------------------------------------ a shim used directly
\* ws 'close' event of a ws that only a shim wraps.
ShimWsClose(h) ==
    /\ h \in Handles
    /\ readyState[h] # CLOSED
    /\ readyState' = [readyState EXCEPT ![h] = CLOSED]
    /\ topicRegistry' = OnCloseRegistry(topicRegistry, h)
    /\ wsSent' = EmptyBag
    /\ wsCalls' = {}
    /\ ret' = 0
    /\ UNCHANGED << importCounter, reqs, shims, jobs, last, uncaught >>
    /\ UNCHANGED staticVars
    /\ UNCHANGED hostVars
    /\ UNCHANGED binaryVars
    /\ pub' = NoPub

UserSubscribe(h, t) ==
    /\ h \in Handles
    /\ topicRegistry' = ShimSubscribe(topicRegistry, h, t)
    /\ wsSent' = EmptyBag
    /\ wsCalls' = {}
    /\ ret' = 0
    /\ UNCHANGED << importCounter, reqs, shims, readyState, jobs, last, uncaught >>
    /\ UNCHANGED staticVars
    /\ UNCHANGED hostVars
    /\ UNCHANGED binaryVars
    /\ pub' = NoPub

UserUnsubscribe(h, t) ==
    /\ h \in Handles
    /\ topicRegistry' = ShimUnsubscribe(topicRegistry, h, t)
    /\ wsSent' = EmptyBag
    /\ wsCalls' = {}
    /\ ret' = 0
    /\ UNCHANGED << importCounter, reqs, shims, readyState, jobs, last, uncaught >>
    /\ UNCHANGED staticVars
    /\ UNCHANGED hostVars
    /\ UNCHANGED binaryVars
    /\ pub' = NoPub

UserPublish(p, t, d) ==
    /\ p \in Handles
    /\ UNCHANGED << importCounter, reqs, shims, readyState, topicRegistry, jobs,
                    last, uncaught >>
    /\ UNCHANGED staticVars
    /\ UNCHANGED hostVars
    /\ UNCHANGED binaryVars
    /\ wsCalls' = {}
    /\ pub' = [p |-> p, t |-> t, d |-> d]
    /\ LET r == ShimPublish(topicRegistry, readyState, p, t, d)
       IN /\ ret' = r.ret
          /\ wsSent' = r.sent

\* close(code, reason): if (readyState >= 2) return; ws.close(code, reason)
ShimClose(rs, h) == IF rs[h] >= CLOSING THEN rs ELSE [rs EXCEPT ![h] = CLOSING]

\* A close() without the guard: every call reaches the transport.
ShimCloseCallsAlways(rs, h) == {"close"}

\* The ws methods close() invokes.
ShimCloseCalls(rs, h) == IF rs[h] >= CLOSING THEN {} ELSE {"close"}

\* A terminate() that never reaches the transport.
ShimTerminateNothing(rs, h) == rs

\* terminate(): ws.terminate() destroys the socket; 'close' follows.
ShimTerminate(rs, h) == IF rs[h] = CLOSED THEN rs ELSE [rs EXCEPT ![h] = CLOSING]

UserClose(h) ==
    /\ h \in Handles
    /\ readyState' = ShimClose(readyState, h)
    /\ wsCalls' = ShimCloseCalls(readyState, h)
    /\ wsSent' = EmptyBag
    /\ ret' = 0
    /\ UNCHANGED << importCounter, reqs, shims, topicRegistry, jobs, last, uncaught >>
    /\ UNCHANGED staticVars
    /\ UNCHANGED hostVars
    /\ UNCHANGED binaryVars
    /\ pub' = NoPub

UserTerminate(h) ==
    /\ h \in Handles
    /\ readyState' = ShimTerminate(readyState, h)
    /\ wsCalls' = {"terminate"}
    /\ wsSent' = EmptyBag
    /\ ret' = 0
    /\ UNCHANGED << importCounter, reqs, shims, topicRegistry, jobs, last, uncaught >>
    /\ UNCHANGED staticVars
    /\ UNCHANGED hostVars
    /\ UNCHANGED binaryVars
    /\ pub' = NoPub

\* A ping() without the guard.
ShimPingAlways(rs, h) == {"ping"}

\* ping(data): if (readyState !== 1) return; ws.ping(data)
ShimPing(rs, h) == IF rs[h] # OPEN THEN {} ELSE {"ping"}

\* pong(data): if (readyState !== 1) return; ws.pong(data)
ShimPong(rs, h) == IF rs[h] # OPEN THEN {} ELSE {"pong"}

UserSend(h, d) ==
    /\ h \in Handles
    /\ wsSent' = ShimSend(readyState, EmptyBag, h, d).sent
    /\ ret' = ShimSend(readyState, EmptyBag, h, d).ret
    /\ wsCalls' = {}
    /\ UNCHANGED << importCounter, reqs, shims, readyState, topicRegistry, jobs,
                    last, uncaught >>
    /\ UNCHANGED staticVars
    /\ UNCHANGED hostVars
    /\ UNCHANGED binaryVars
    /\ pub' = NoPub

UserPing(h) ==
    /\ h \in Handles
    /\ wsCalls' = ShimPing(readyState, h)
    /\ wsSent' = EmptyBag
    /\ ret' = 0
    /\ UNCHANGED << importCounter, reqs, shims, readyState, topicRegistry, jobs,
                    last, uncaught >>
    /\ UNCHANGED staticVars
    /\ UNCHANGED hostVars
    /\ UNCHANGED binaryVars
    /\ pub' = NoPub

UserPong(h) ==
    /\ h \in Handles
    /\ wsCalls' = ShimPong(readyState, h)
    /\ wsSent' = EmptyBag
    /\ ret' = 0
    /\ UNCHANGED << importCounter, reqs, shims, readyState, topicRegistry, jobs,
                    last, uncaught >>
    /\ UNCHANGED staticVars
    /\ UNCHANGED hostVars
    /\ UNCHANGED binaryVars
    /\ pub' = NoPub

\* ws 'open' event of a ws handed to the shim while still connecting; the
\* shim has no listener for it and reads ws.readyState.
WsOpen(h) ==
    /\ h \in Handles
    /\ readyState[h] = CONNECTING
    /\ readyState' = [readyState EXCEPT ![h] = OPEN]
    /\ UNCHANGED << importCounter, reqs, shims, topicRegistry, jobs, last, wsSent,
                    uncaught, wsCalls, ret >>
    /\ UNCHANGED staticVars
    /\ UNCHANGED hostVars
    /\ UNCHANGED binaryVars
    /\ UNCHANGED pub

\* The 'close' event that ends a closing handshake or follows the
\* destruction of the socket.
WsCloseCompletes(h) == readyState[h] = CLOSING /\ ShimWsClose(h)

\* ------------------------------------------------------ specifications
\* The upgrade path of the bridge, from server start.
Next ==
    \/ \E r \in 1..MaxReq, proto \in Protocols, addr \in Addresses :
          UpgradeRequest(r, proto, addr)
    \/ \E i \in 1..MaxReq, mod \in UpgradeModules :
          \E beh \in BehavioursOf(mod) : UpgradeImported(i, mod, beh)
    \/ \E i \in 1..MaxReq, res \in DispatchResults : Dispatch(i, res)

Spec == Init /\ [][Next]_vars

\* MaxConn connections accepted without an upgrade callback, whose open
\* callbacks ran and subscribed the handle to "room".
InitEvents ==
    /\ importCounter = 2 * MaxConn
    /\ reqs = [r \in 1..MaxConn |->
                 [IdleReq EXCEPT !.state = "auto", !.proto = "chat",
                                 !.addr = "10.0.0.1", !.socket = "upgraded"]]
    /\ shims = [c \in 1..MaxConn |-> NewShim(c, Undefined, RemoteAddressOf("10.0.0.1"))]
    /\ readyState = [c \in 1..MaxConn |-> OPEN]
    /\ topicRegistry = [t \in {"room"} |-> 1..MaxConn]
    /\ jobs = <<>>
    /\ last = NoLast
    /\ wsSent = EmptyBag
    /\ uncaught = FALSE
    /\ wsCalls = {}
    /\ ret = 0
    /\ pub = NoPub
    /\ file = NoFile
    /\ request = NoRequest
    /\ response = NoResponse
    /\ IndexIdle
    /\ ProdIdle
    /\ BinaryIdle
    /\ HostIdle

NextEvents ==
    \/ \E h \in 1..MaxConn, p \in Payloads : TransportMessage(h, p)
    \/ \E h \in 1..MaxConn, ev \in CloseEvents : TransportClose(h, ev)
    \/ \E i \in 1..MaxEvents, res \in DispatchResults : Dispatch(i, res)

SpecEvents == InitEvents /\ [][NextEvents]_vars

NextCallbacks ==
    \/ NextEvents
    \/ \E i \in 1..MaxEvents, t \in Topics : CallbackSubscribes(i, t)

\* The events of accepted connections, with user callbacks that subscribe.
SpecCallbacks == InitEvents /\ [][NextCallbacks]_vars


\* MaxConn open transports, each wrapped directly in a shim, as the unit
\* tests of the shim do.
InitShim ==
    /\ importCounter = 0
    /\ reqs = [r \in 1..MaxConn |-> IdleReq]
    /\ shims = [c \in 1..MaxConn |-> NewShim(0, Undefined, Undefined)]
    /\ readyState = [c \in 1..MaxConn |-> OPEN]
    /\ topicRegistry = EmptyRegistry
    /\ jobs = <<>>
    /\ last = NoLast
    /\ wsSent = EmptyBag
    /\ uncaught = FALSE
    /\ wsCalls = {}
    /\ ret = 0
    /\ pub = NoPub
    /\ file = NoFile
    /\ request = NoRequest
    /\ response = NoResponse
    /\ IndexIdle
    /\ ProdIdle
    /\ BinaryIdle
    /\ HostIdle

NextShim ==
    \/ \E h \in 1..MaxConn, t \in Topics : UserSubscribe(h, t)
    \/ \E h \in 1..MaxConn, t \in Topics : UserUnsubscribe(h, t)
    \/ \E h \in 1..MaxConn, t \in Topics, d \in Datas : UserPublish(h, t, d)
    \/ \E h \in 1..MaxConn : UserClose(h)
    \/ \E h \in 1..MaxConn : UserTerminate(h)
    \/ \E h \in 1..MaxConn : ShimWsClose(h)

SpecShim == InitShim /\ [][NextShim]_vars

\* Shims whose handles have all subscribed to every topic; from here on
\* handles only leave: unsubscribe, close(), terminate(), the ws 'close'.
InitFrame ==
    /\ importCounter = 0
    /\ reqs = [r \in 1..MaxConn |-> IdleReq]
    /\ shims = [c \in 1..MaxConn |-> NewShim(0, Undefined, Undefined)]
    /\ readyState = [c \in 1..MaxConn |-> OPEN]
    /\ topicRegistry = [t \in Topics |-> 1..MaxConn]
    /\ jobs = <<>>
    /\ last = NoLast
    /\ wsSent = EmptyBag
    /\ uncaught = FALSE
    /\ wsCalls = {}
    /\ ret = 0
    /\ pub = NoPub
    /\ file = NoFile
    /\ request = NoRequest
    /\ response = NoResponse
    /\ IndexIdle
    /\ ProdIdle
    /\ BinaryIdle
    /\ HostIdle

NextFrame ==
    \/ \E h \in 1..MaxConn, t \in Topics : UserUnsubscribe(h, t)
    \/ \E h \in 1..MaxConn : UserClose(h)
    \/ \E h \in 1..MaxConn : UserTerminate(h)
    \/ \E h \in 1..MaxConn : ShimWsClose(h)

SpecFrame == InitFrame /\ [][NextFrame]_vars

\* Shims over transports that are connecting or open: the lifecycle of a
\* handle and the transport calls its methods make.
InitLife ==
    /\ importCounter = 0
    /\ reqs = [r \in 1..MaxConn |-> IdleReq]
    /\ shims = [c \in 1..MaxConn |-> NewShim(0, Undefined, Undefined)]
    /\ readyState \in [1..MaxConn -> {CONNECTING, OPEN}]
    /\ topicRegistry = EmptyRegistry
    /\ jobs = <<>>
    /\ last = NoLast
    /\ wsSent = EmptyBag
    /\ uncaught = FALSE
    /\ wsCalls = {}
    /\ ret = 0
    /\ pub = NoPub
    /\ file = NoFile
    /\ request = NoRequest
    /\ response = NoResponse
    /\ IndexIdle
    /\ ProdIdle
    /\ BinaryIdle
    /\ HostIdle

\* User code reads shim.binaryType.
UserGetBinaryType(h) ==
    /\ h \in Handles
    /\ lastBinary' = [op |-> "get", h |-> h, value |-> ShimGetBinaryType(binaryType[h])]
    /\ UNCHANGED << importCounter, reqs, shims, readyState, topicRegistry, jobs,
                    last, wsSent, uncaught, wsCalls, ret, pub, binaryType >>
    /\ UNCHANGED staticVars
    /\ UNCHANGED hostVars

\* User code assigns shim.binaryType = value.
UserSetBinaryType(h, value) ==
    /\ h \in Handles
    /\ binaryType' = [binaryType EXCEPT ![h] = ShimSetBinaryType(value)]
    /\ lastBinary' = [op |-> "set", h |-> h, value |-> value]
    /\ UNCHANGED << importCounter, reqs, shims, readyState, topicRegistry, jobs,
                    last, wsSent, uncaught, wsCalls, ret, pub >>
    /\ UNCHANGED staticVars
    /\ UNCHANGED hostVars

\* The values user code assigns: Bun's two, and ws's own names.
BinaryTypes == {"uint8array", "arraybuffer", "nodebuffer", "fragments"}

NextBinary ==
    \/ \E h \in 1..MaxConn : UserGetBinaryType(h)
    \/ \E h \in 1..MaxConn, value \in BinaryTypes : UserSetBinaryType(h, value)

NextLife ==
    \/ \E h \in 1..MaxConn, d \in Datas : UserSend(h, d)
    \/ \E h \in 1..MaxConn : UserPing(h)
    \/ \E h \in 1..MaxConn : UserPong(h)
    \/ \E h \in 1..MaxConn : UserClose(h)
    \/ \E h \in 1..MaxConn : UserTerminate(h)
    \/ \E h \in 1..MaxConn : WsOpen(h)
    \/ \E h \in 1..MaxConn : ShimWsClose(h)

\* A closing transport always ends with its 'close' event: the peer's
\* close frame, the close timeout, or the destroyed socket.
SpecLife ==
    /\ InitLife
    /\ [][NextLife]_vars
    /\ \A h \in 1..MaxConn : WF_vars(WsCloseCompletes(h))

SpecBinary == InitLife /\ [][NextBinary]_vars

\* -------------------------------------- the static responder's inputs
Sizes == 0..MaxSize
Mtimes == {12}

Files ==
    {FileEntry(size, mtime, use_etag, has_br, has_gz, immutable) :
        size \in Sizes, mtime \in Mtimes, use_etag \in BOOLEAN,
        has_br \in BOOLEAN, has_gz \in BOOLEAN, immutable \in BOOLEAN}

\* Accept-Encoding: absent, gzip, br, "gzip, br", "br;q=0", identity
AcceptEncodings ==
    {Null, StrGzip, StrBr, StrGzip \o << ",", " " >> \o StrBr,
     StrBr \o << ";", "q", "=", "0" >>,
     << "i", "d", "e", "n", "t", "i", "t", "y" >>}

\* If-None-Match: absent, the entry's validator, a stale validator, *
IfNoneMatches(f) == {Null, Etag(f.size, f.mtime), Etag(f.size, f.mtime + 1), << "*" >>}

RangeNums == 0..(MaxSize + 1)

\* Range: absent; bytes=<start>-<end>; bytes=<start>-; two digits; a suffix
\* range; a list of two ranges; another unit.
Ranges ==
    {Null}
    \cup {BytesEq \o ToDigits(a) \o << "-" >> \o ToDigits(b) : a \in RangeNums, b \in RangeNums}
    \cup {BytesEq \o ToDigits(a) \o << "-" >> : a \in RangeNums}
    \cup {BytesEq \o << "1", "0", "-", "1", "1" >>,
          BytesEq \o << "-", "1" >>,
          BytesEq \o << "0", "-", "0", ",", "2", "-", "2" >>,
          << "i", "t", "e", "m", "s", "=", "0", "-", "1" >>}

StaticRequests(f) ==
    [ifNoneMatch : IfNoneMatches(f), acceptEncoding : AcceptEncodings, range : Ranges]

\* A responder built over a directory that holds the file, and a request
\* for the file's path.
InitStatic ==
    /\ importCounter = 0
    /\ reqs = [r \in 1..MaxReq |-> IdleReq]
    /\ shims = <<>>
    /\ readyState = <<>>
    /\ topicRegistry = EmptyRegistry
    /\ jobs = <<>>
    /\ last = NoLast
    /\ wsSent = EmptyBag
    /\ uncaught = FALSE
    /\ wsCalls = {}
    /\ ret = 0
    /\ pub = NoPub
    /\ file \in Files
    /\ request \in StaticRequests(file)
    /\ response = NoResponse
    /\ IndexIdle
    /\ ProdIdle
    /\ BinaryIdle
    /\ HostIdle

\* handle(request) runs and returns its response.
Serve ==
    /\ response = NoResponse
    /\ response' = Handle(file, request)
    /\ UNCHANGED << file, request, dir, files, responder, fetches, route >>
    /\ UNCHANGED wsVars
    /\ UNCHANGED hostVars

NextStatic == Serve

SpecStatic == InitStatic /\ [][NextStatic]_vars

\* ------------------------------------------ the directory index's inputs
MaxDepth == 1

NameA == << "a" >>
NameD == << "d" >>
FileNames == {NameA, NameA \o DotBr, NameA \o DotGz, << "b" >> \o DotGz}

\* The directories of at most the given depth: any files, and possibly one
\* subdirectory.
RECURSIVE Dirs(_)
Dirs(depth) ==
    LET flat == {[n \in S |-> FileNode(2, 12)] : S \in SUBSET FileNames}
    IN IF depth = 0
       THEN flat
       ELSE flat \cup {[n \in DOMAIN f \cup {NameD} |->
                           IF n = NameD THEN DirNode(sub) ELSE f[n]] :
                       f \in flat, sub \in Dirs(depth - 1)}

\* The directory that holds every name at every depth.
RECURSIVE FullDir(_)
FullDir(depth) ==
    [n \in FileNames \cup (IF depth = 0 THEN {} ELSE {NameD}) |->
        IF n = NameD THEN DirNode(FullDir(depth - 1)) ELSE FileNode(2, 12)]

\* Request paths: the root, and every path that can exist below it.
Pathnames ==
    {<< "/" >>} \cup {<< "/" >> \o p : p \in StatPaths(FullDir(MaxDepth), << >>)}

\* A directory on disk, or none, before sirv is called.
InitIndex ==
    /\ importCounter = 0
    /\ reqs = [r \in 1..MaxReq |-> IdleReq]
    /\ shims = <<>>
    /\ readyState = <<>>
    /\ topicRegistry = EmptyRegistry
    /\ jobs = <<>>
    /\ last = NoLast
    /\ wsSent = EmptyBag
    /\ uncaught = FALSE
    /\ wsCalls = {}
    /\ ret = 0
    /\ pub = NoPub
    /\ file = NoFile
    /\ request = NoRequest
    /\ response = NoResponse
    /\ dir \in {Missing} \cup {DirNode(d) : d \in Dirs(MaxDepth)}
    /\ files = EmptyIndex
    /\ responder = "none"
    /\ ProdIdle
    /\ BinaryIdle
    /\ HostIdle

\* sirv(dir, {etag}) runs.
BuildResponder(use_etag) ==
    /\ responder = "none"
    /\ LET built == Sirv(dir, use_etag)
       IN /\ responder' = built.responder
          /\ files' = built.files
    /\ UNCHANGED << file, request, response, dir, fetches, route >>
    /\ UNCHANGED wsVars
    /\ UNCHANGED hostVars

\* The function sirv returned is called with a request for pathname.
ServeIndexed(pathname) ==
    /\ responder \in {"null", "handle"}
    /\ request' = [pathname |-> pathname, ifNoneMatch |-> Null,
                   acceptEncoding |-> Null, range |-> Null]
    /\ response' = Respond(responder, files, request')
    /\ UNCHANGED << file, dir, files, responder, fetches, route >>
    /\ UNCHANGED wsVars
    /\ UNCHANGED hostVars

NextIndex ==
    \/ \E use_etag \in BOOLEAN : BuildResponder(use_etag)
    \/ \E pathname \in Pathnames : ServeIndexed(pathname)

SpecIndex == InitIndex /\ [][NextIndex]_vars

\* ------------------------------------------- the production shutdown
MaxListeners == 2
MaxSignals == 2

\* What a process listener does when it is called: return (or resolve),
\* throw, return a promise that rejects, return a promise that never settles.
ListenerKinds == {"returns", "throws", "rejects", "hangs"}

Signals == {"SIGINT", "SIGTERM"}

RECURSIVE SeqsUpTo(_, _)
SeqsUpTo(S, n) ==
    IF n = 0
    THEN {<< >>}
    ELSE SeqsUpTo(S, n - 1) \cup
         {Append(q, x) : q \in {r \in SeqsUpTo(S, n - 1) : Len(r) = n - 1}, x \in S}

\* emit_and_await(event, ...args): listeners.map calls the listeners in
\* order and stops at the first that throws; Promise.all rejects with the
\* first rejection, resolves when all resolved, and stays pending otherwise.
EmitAndAwait(ls) ==
    LET thrower == {i \in 1..Len(ls) : ls[i] = "throws"}
        invoked == IF thrower = {}
                   THEN Len(ls)
                   ELSE CHOOSE i \in thrower : \A j \in thrower : i <= j
        kinds == {ls[i] : i \in 1..invoked}
    IN [invoked |-> invoked,
        outcome |-> IF kinds \cap {"throws", "rejects"} # {} THEN "rejected"
                    ELSE IF "hangs" \in kinds THEN "pending"
                    ELSE "resolved"]

\* A shutdown that emits the event before it stops the server.
ShutdownCallsEmitFirst(k, invoked) ==
    [i \in 1..invoked |-> [call |-> "listener", run |-> k, listener |-> i]]
        \o << [call |-> "server.stop", run |-> k, listener |-> 0] >>

\* shutdown(reason) up to its await: server.stop(), then the listeners.
ShutdownCalls(k, invoked) ==
    << [call |-> "server.stop", run |-> k, listener |-> 0] >>
        \o [i \in 1..invoked |-> [call |-> "listener", run |-> k, listener |-> i]]

\* index.js has run: the server listens and user code has registered its
\* sveltekit:shutdown listeners.
InitShutdown ==
    /\ importCounter = 0
    /\ reqs = [r \in 1..MaxReq |-> IdleReq]
    /\ shims = <<>>
    /\ readyState = <<>>
    /\ topicRegistry = EmptyRegistry
    /\ jobs = <<>>
    /\ last = NoLast
    /\ wsSent = EmptyBag
    /\ uncaught = FALSE
    /\ wsCalls = {}
    /\ ret = 0
    /\ pub = NoPub
    /\ file = NoFile
    /\ request = NoRequest
    /\ response = NoResponse
    /\ IndexIdle
    /\ ProdIdle
    /\ BinaryIdle
    /\ \E ls \in SeqsUpTo(ListenerKinds, MaxListeners) :
          proc = [listeners |-> ls, runs |-> << >>, trace |-> << >>, exited |-> FALSE]
    /\ plugin = NoPlugin
    /\ route = NoRoute

\* SIGINT or SIGTERM arrives: shutdown(reason) runs up to its await.
Signal(sig) ==
    /\ ~proc.exited
    /\ Len(proc.runs) < MaxSignals
    /\ LET k == Len(proc.runs) + 1
           e == EmitAndAwait(proc.listeners)
       IN proc' = [proc EXCEPT
                      !.runs = Append(@, [reason |-> sig, state |-> "awaiting",
                                          outcome |-> e.outcome, caught |-> FALSE]),
                      !.trace = @ \o ShutdownCalls(k, e.invoked)]
    /\ UNCHANGED plugin
    /\ UNCHANGED wsVars
    /\ UNCHANGED staticVars

\* The awaited promise settled: shutdown resumes, logs a rejection in its
\* catch, and returns.
ShutdownResumes(k) ==
    /\ ~proc.exited
    /\ k \in 1..Len(proc.runs)
    /\ proc.runs[k].state = "awaiting"
    /\ proc.runs[k].outcome # "pending"
    /\ proc' = [proc EXCEPT !.runs[k].state = "completed",
                            !.runs[k].caught = (proc.runs[k].outcome = "rejected")]
    /\ UNCHANGED plugin
    /\ UNCHANGED wsVars
    /\ UNCHANGED staticVars

\* The shutdown timer of run k fires: process.exit(1).  Timers run after
\* the continuations of promises that have settled.
ShutdownTimeout(k) ==
    /\ ~proc.exited
    /\ k \in 1..Len(proc.runs)
    /\ \A j \in 1..Len(proc.runs) :
          proc.runs[j].state = "awaiting" => proc.runs[j].outcome = "pending"
    /\ proc' = [proc EXCEPT !.exited = TRUE]
    /\ UNCHANGED plugin
    /\ UNCHANGED wsVars
    /\ UNCHANGED staticVars

NextShutdown ==
    \/ \E sig \in Signals : Signal(sig)
    \/ \E k \in 1..MaxSignals : ShutdownResumes(k)
    \/ \E k \in 1..MaxSignals : ShutdownTimeout(k)

SpecShutdown ==
    /\ InitShutdown
    /\ [][NextShutdown]_vars
    /\ \A k \in 1..MaxSignals : WF_vars(ShutdownResumes(k))

\* ---------------------------------------- the lifecycle plugin's steps
\* The plugin is loaded with its websocket option off; no server is wired.
InitPlugin ==
    /\ importCounter = 0
    /\ reqs = [r \in 1..MaxReq |-> IdleReq]
    /\ shims = <<>>
    /\ readyState = <<>>
    /\ topicRegistry = EmptyRegistry
    /\ jobs = <<>>
    /\ last = NoLast
    /\ wsSent = EmptyBag
    /\ uncaught = FALSE
    /\ wsCalls = {}
    /\ ret = 0
    /\ pub = NoPub
    /\ file = NoFile
    /\ request = NoRequest
    /\ response = NoResponse
    /\ IndexIdle
    /\ ProdIdle
    /\ BinaryIdle
    /\ HostIdle

\* setup_lifecycle(httpServer, logger, websocketPath): install_sticky(),
\* the import of the dev WebSocket server is started when the option is
\* set, and emitStartup() runs at once when the server already listens.
\* Each server's ws field is "none", "importing", "active" (the upgrade
\* listener is attached and the WebSocketServer open), "closed" or "failed".
SetupLifecycle(s, listening) ==
    /\ ~plugin.servers[s].wired
    /\ LET wired == [plugin EXCEPT !.installed = TRUE,
                                   !.rewired = plugin.completed,
                                   !.servers[s].wired = TRUE,
                                   !.servers[s].ws =
                                       IF plugin.websocket THEN "importing" ELSE "none",
                                   !.servers[s].listening = listening]
       IN plugin' = IF listening THEN StickyEmit(wired, Startup, s) ELSE wired
    /\ UNCHANGED proc
    /\ UNCHANGED wsVars
    /\ UNCHANGED staticVars

\* httpServer 'listening': emitStartup().
Listening(s) ==
    /\ plugin.servers[s].wired
    /\ ~plugin.servers[s].listening
    /\ plugin.servers[s].closes = 0
    /\ plugin' = StickyEmit([plugin EXCEPT !.servers[s].listening = TRUE], Startup, s)
    /\ UNCHANGED proc
    /\ UNCHANGED wsVars
    /\ UNCHANGED staticVars

\* httpServer 'close': the listener setup_lifecycle registered.
ServerClose(s) ==
    /\ plugin.servers[s].wired
    /\ plugin.servers[s].closes < MaxEvents
    /\ LET counted == [plugin EXCEPT !.servers[s].closes = @ + 1]
       IN plugin' =
             IF AlreadyShuttingDown(plugin.servers[s])
             THEN counted
             ELSE StickyEmit([counted EXCEPT !.servers[s].shutting_down = TRUE,
                                             !.servers[s].ws =
                                                 IF @ = "active" THEN "closed" ELSE @,
                                             !.servers[s].shutdowns = @ + 1,
                                             !.servers[s].emit = "emitting"],
                             Shutdown, "close")
    /\ UNCHANGED proc
    /\ UNCHANGED wsVars
    /\ UNCHANGED staticVars

\* import('./dev/websocket-server.js') has settled: on success
\* wsServer = setupDevWebSocket(httpServer, websocketPath), which attaches
\* the upgrade listener to httpServer.
WsImported(s, ok) ==
    /\ plugin.servers[s].ws = "importing"
    /\ plugin' = [plugin EXCEPT !.servers[s].ws = IF ok THEN "active" ELSE "failed"]
    /\ UNCHANGED proc
    /\ UNCHANGED wsVars
    /\ UNCHANGED staticVars

\* The shutdown emit of server s has settled: .finally(uninstall_sticky).
ShutdownEmitSettles(s) ==
    /\ plugin.servers[s].emit = "emitting"
    /\ plugin' = [UninstallSticky(plugin) EXCEPT !.servers[s].emit = "done",
                                                 !.completed = TRUE,
                                                 !.rewired = FALSE]
    /\ UNCHANGED proc
    /\ UNCHANGED wsVars
    /\ UNCHANGED staticVars

\* User code calls process.on(event, fn) or process.once(event, fn): the
\* patched function while installed, the original otherwise.
Register(fn, event) ==
    /\ plugin.listeners[fn].event = "none"
    /\ plugin' = [plugin EXCEPT
                     !.listeners[fn].event = event,
                     !.ticks = IF plugin.installed
                               THEN @ \o MaybeReplay(plugin, event, fn)
                               ELSE @]
    /\ UNCHANGED proc
    /\ UNCHANGED wsVars
    /\ UNCHANGED staticVars

\* The next process.nextTick callback runs: fn(...args).
Tick ==
    /\ plugin.ticks # << >>
    /\ LET t == Head(plugin.ticks)
       IN plugin' = [plugin EXCEPT
                        !.ticks = Tail(@),
                        !.listeners[t.fn].last = [via |-> "replay", args |-> t.args]]
    /\ UNCHANGED proc
    /\ UNCHANGED wsVars
    /\ UNCHANGED staticVars

NextPlugin ==
    \/ \E s \in Servers, listening \in BOOLEAN : SetupLifecycle(s, listening)
    \/ \E s \in Servers : Listening(s)
    \/ \E s \in Servers : ServerClose(s)
    \/ \E s \in Servers : ShutdownEmitSettles(s)
    \/ \E fn \in Fns, event \in ProcessEvents : Register(fn, event)
    \/ Tick

SpecPlugin == InitPlugin /\ [][NextPlugin]_vars /\ WF_vars(Tick)

\* The plugin is loaded with its websocket option set.
InitPluginWs ==
    /\ importCounter = 0
    /\ reqs = [r \in 1..MaxReq |-> IdleReq]
    /\ shims = <<>>
    /\ readyState = <<>>
    /\ topicRegistry = EmptyRegistry
    /\ jobs = <<>>
    /\ last = NoLast
    /\ wsSent = EmptyBag
    /\ uncaught = FALSE
    /\ wsCalls = {}
    /\ ret = 0
    /\ pub = NoPub
    /\ file = NoFile
    /\ request = NoRequest
    /\ response = NoResponse
    /\ IndexIdle
    /\ ProdIdle
    /\ BinaryIdle
    /\ route = NoRoute
    /\ proc = [listeners |-> << >>, runs |-> << >>, trace |-> << >>, exited |-> FALSE]
    /\ plugin = [NoPlugin EXCEPT !.websocket = TRUE]

NextPluginWs ==
    \/ \E s \in Servers, listening \in BOOLEAN : SetupLifecycle(s, listening)
    \/ \E s \in Servers, ok \in BOOLEAN : WsImported(s, ok)
    \/ \E s \in Servers : Listening(s)
    \/ \E s \in Servers : ServerClose(s)
    \/ \E s \in Servers : ShutdownEmitSettles(s)

SpecPluginWs == InitPluginWs /\ [][NextPluginWs]_vars

\* -------------------------------------- the production handler's steps
\* createHandler with build_options.websocket set or not.
InitProd ==
    /\ importCounter = 0
    /\ reqs = [r \in 1..MaxReq |-> IdleReq]
    /\ shims = <<>>
    /\ readyState = <<>>
    /\ topicRegistry = EmptyRegistry
    /\ jobs = <<>>
    /\ last = NoLast
    /\ wsSent = EmptyBag
    /\ uncaught = FALSE
    /\ wsCalls = {}
    /\ ret = 0
    /\ pub = NoPub
    /\ file = NoFile
    /\ request = NoRequest
    /\ response = NoResponse
    /\ IndexIdle
    /\ \E websocket \in BOOLEAN :
          fetches = [websocket |-> websocket, reqs |-> [r \in 1..MaxReq |-> IdleFetch]]
    /\ BinaryIdle
    /\ HostIdle

\* httpserver(request, bun_server) up to `await import(websocket_path)`, or
\* to its return when the upgrade branch is not taken.
ProdFetch(r, connection, upgrade, answeredBy) ==
    /\ fetches.reqs[r].state = "idle"
    /\ \A q \in 1..(r - 1) : fetches.reqs[q].state # "idle"
    /\ IF fetches.websocket /\ IsUpgradeRequest(connection, upgrade)
       THEN fetches' = [fetches EXCEPT !.reqs[r] =
                           [@ EXCEPT !.state = "importing", !.ws = TRUE]]
       ELSE fetches' = [fetches EXCEPT !.reqs[r] =
                           [@ EXCEPT !.state = "done", !.ws = FALSE,
                                     !.answeredBy = answeredBy]]
    /\ UNCHANGED << file, request, response, dir, files, responder, route >>
    /\ UNCHANGED wsVars
    /\ UNCHANGED hostVars

\* httpserver resumes after the import: the upgrade branch runs and either
\* returns or falls through to the responders below it.
ProdImported(r, mod, beh, truthy, answeredBy) ==
    /\ fetches.reqs[r].state = "importing"
    /\ LET out == ProdUpgradeBody(mod, beh, truthy)
       IN fetches' = [fetches EXCEPT !.reqs[r] =
                         [@ EXCEPT !.state = "done", !.mod = mod, !.beh = beh,
                                   !.upgraded = out.upgraded,
                                   !.returned = out.returned,
                                   !.answeredBy = IF out.returned = "none"
                                                  THEN answeredBy ELSE "none"]]
    /\ UNCHANGED << file, request, response, dir, files, responder, route >>
    /\ UNCHANGED wsVars
    /\ UNCHANGED hostVars

NextProd ==
    \/ \E r \in 1..MaxReq, connection \in ConnectionHeaders,
          upgrade \in UpgradeHeaders, answeredBy \in Responders :
          ProdFetch(r, connection, upgrade, answeredBy)
    \/ \E r \in 1..MaxReq, mod \in UpgradeModules, truthy \in BOOLEAN,
          answeredBy \in Responders :
          \E beh \in BehavioursOf(mod) : ProdImported(r, mod, beh, truthy, answeredBy)

SpecProd == InitProd /\ [][NextProd]_vars

\* ------------------------------------------ the responder chain's steps
RECURSIVE PathsOfLen(_)
PathsOfLen(n) ==
    IF n = 1 THEN {Slash}
    ELSE {p \o << c >> : p \in PathsOfLen(n - 1), c \in PathChars}

RoutePathnames == UNION {PathsOfLen(n) : n \in 1..MaxPath}
PrerenderedPaths == {Slash, << "/", "a" >>, << "/", "a", "/" >>}
BasePaths == {<< >>, << "/", "p" >>}
Searches == {<< >>, << "?", "q" >>}

\* A build without the websocket option: any manifest and any content of
\* the client and prerendered directories.
InitRoute ==
    /\ importCounter = 0
    /\ reqs = [r \in 1..MaxReq |-> IdleReq]
    /\ shims = <<>>
    /\ readyState = <<>>
    /\ topicRegistry = EmptyRegistry
    /\ jobs = <<>>
    /\ last = NoLast
    /\ wsSent = EmptyBag
    /\ uncaught = FALSE
    /\ wsCalls = {}
    /\ ret = 0
    /\ pub = NoPub
    /\ file = NoFile
    /\ request = NoRequest
    /\ response = NoResponse
    /\ IndexIdle
    /\ ProdIdle
    /\ BinaryIdle
    /\ proc = [listeners |-> << >>, runs |-> << >>, trace |-> << >>, exited |-> FALSE]
    /\ plugin = NoPlugin
    /\ \E base \in BasePaths, prerendered \in SUBSET PrerenderedPaths,
          pages \in SUBSET PrerenderedPaths, client \in SUBSET {<< "/", "a" >>} :
          route = [NoRoute EXCEPT !.base = base, !.prerendered = prerendered,
                                  !.pages = pages, !.client = client]

\* httpserver(request, bun_server) with build_options.websocket unset, for
\* the first request the handler receives.
RouteFetch(pathname, search) ==
    /\ route.by = "none"
    /\ LET out == ServeChain(route, pathname, search)
       IN route' = [route EXCEPT !.pathname = pathname, !.search = search,
                                 !.by = out.by, !.status = out.status,
                                 !.location = out.location]
    /\ UNCHANGED << file, request, response, dir, files, responder, fetches >>
    /\ UNCHANGED wsVars
    /\ UNCHANGED << proc, plugin >>

NextRoute == \E pathname \in RoutePathnames, search \in Searches : RouteFetch(pathname, search)

SpecRoute == InitRoute /\ [][NextRoute]_vars

\* ---------------------------------------------------------------- claims
Subscribers(t) == {h \in Handles : IsSubscribed(topicRegistry, h, t)}

C1_ClosedUnsubscribed ==
    \A h \in Handles : readyState[h] = CLOSED =>
        \A t \in Topics : ~IsSubscribed(topicRegistry, h, t)

C1_PublishSkipsClosed ==
    \A p \in Handles, t \in Topics, d \in Datas :
        UserPublish(p, t, d) =>
            \A h \in Handles : readyState[h] = CLOSED => h \notin DOMAIN wsSent'

\* C1: in every state after a handle has become closed, isSubscribed is
\* false for every topic on that handle, and no publish issued by another
\* handle hands a frame to it.
C1_ClosedHandleLeavesTopics ==
    []C1_ClosedUnsubscribed /\ [][C1_PublishSkipsClosed]_vars

\* The handles a publish by p on t must reach: subscribed, open, not p.
Recipients(p, t) ==
    {h \in Handles : h \in Subscribers(t) /\ readyState[h] = OPEN /\ h # p}

\* C2: publish(topic, data) on handle p hands the data to ws.send exactly
\* once for every open subscriber of the topic other than p, and to no one
\* else: not to p, not to a subscriber that is not open.
C2_PublishFanOut ==
    pub # NoPub => wsSent = [h \in Recipients(pub.p, pub.t) |-> 1]

\* Two open subscribers were reached while all three handles of a topic,
\* the publisher included, are subscribed.
C2_Witness ==
    \E t \in Topics :
        /\ pub # NoPub /\ pub.t = t /\ pub.p \in Subscribers(t)
        /\ Cardinality(Subscribers(t)) >= 3
        /\ Cardinality(DOMAIN wsSent) = 2
        /\ \A h \in DOMAIN wsSent : wsSent[h] = 1

\* C3: no topic of the registry maps to an empty subscriber set.
C3_NoEmptyTopic == \A t \in DOMAIN topicRegistry : topicRegistry[t] # {}

\* A handle was closed and cleaned up, one topic has no entry and the other
\* still has its subscribers.
C3_Witness ==
    /\ \E h \in Handles : readyState[h] = CLOSED
    /\ "room" \notin DOMAIN topicRegistry
    /\ "chat" \in DOMAIN topicRegistry
    /\ Cardinality(topicRegistry["chat"]) = 2

Requests == DOMAIN reqs

\* The shims constructed for upgrade request r.
ShimsOf(r) == {h \in Handles : shims[h].req = r}

CalledResults == {"returns", "throws", "rejects"}

\* C4: when the user's upgrade() returns, with any value or none, without
\* having called server.upgrade(), the request is rejected: the socket is
\* destroyed, no handshake takes place and no handle exists for it.
C4_RejectionDestroysSocket ==
    \A r \in Requests : reqs[r].state = "rejected" =>
        /\ reqs[r].socket = "destroyed"
        /\ ShimsOf(r) = {}

\* C5: when the import of the user module or its upgrade() throws, the
\* socket is destroyed, no handle is constructed and no open callback is
\* dispatched or called for the request.
C5_UpgradeFailureDestroysSocket ==
    \A r \in Requests : reqs[r].state \in {"importFailed", "threw"} =>
        /\ reqs[r].socket = "destroyed"
        /\ ShimsOf(r) = {}
        /\ \A i \in 1..Len(jobs) :
              jobs[i].kind = "open" => shims[jobs[i].target].req # r
        /\ last.kind = "open" => shims[last.h].req # r

\* One request failed on its import and another on an upgrade() that threw
\* after it had called server.upgrade().
C5_Witness ==
    \E r, q \in Requests :
        /\ reqs[r].state = "threw" /\ reqs[r].called
        /\ reqs[q].state = "importFailed"

C6_AcceptedHasOneShim ==
    \A r \in Requests : reqs[r].state = "accepted" =>
        /\ reqs[r].socket = "upgraded"
        /\ Cardinality(ShimsOf(r)) = 1
        /\ \A h \in ShimsOf(r) :
              /\ shims[h].data =
                    (IF reqs[r].payload = Undefined THEN "{}" ELSE reqs[r].payload)
              /\ shims[h].remoteAddress =
                    (IF reqs[r].addr = Undefined THEN "127.0.0.1" ELSE reqs[r].addr)

\* An accepting step leaves exactly one open dispatch, for the new handle.
AcceptDispatchesOpen(i) ==
    jobs' = RemoveAt(jobs, i)
              \o << [id |-> importCounter + 1, kind |-> "open",
                     target |-> Len(shims) + 1, arg |-> NoArg] >>

\* The open dispatch calls open(shim) once, with its handle, and is spent.
OpenDispatchCallsOnce ==
    \A i \in 1..Len(jobs), res \in CalledResults :
        (Dispatch(i, res) /\ jobs[i].kind = "open") =>
            /\ last'.kind = "open"
            /\ last'.called
            /\ last'.h = jobs[i].target
            /\ jobs' = RemoveAt(jobs, i)

C6_OpenDispatchedOnce ==
    /\ \A i \in 1..Len(jobs), beh \in UpgradeBehaviours :
          (UpgradeImported(i, "hasUpgrade", beh) /\ beh.calls /\ beh.result # "throw")
              => AcceptDispatchesOpen(i)
    /\ OpenDispatchCallsOnce

C7_AutoHasOneShim ==
    \A r \in Requests : reqs[r].state = "auto" =>
        /\ reqs[r].socket = "upgraded"
        /\ Cardinality(ShimsOf(r)) = 1

C7_AutoOpenDispatch ==
    /\ \A i \in 1..Len(jobs) :
          UpgradeImported(i, "noUpgrade", NoBehaviour) =>
              /\ reqs'[jobs[i].target].socket = "upgraded"
              /\ Len(shims') = Len(shims) + 1
              /\ AcceptDispatchesOpen(i)
    /\ OpenDispatchCallsOnce

\* C7: a request handled with a user module that has no upgrade callback is
\* accepted unconditionally: the handshake completes, one handle is
\* constructed and the open callback is dispatched for it.
C7_AutoUpgrade == []C7_AutoHasOneShim /\ [][C7_AutoOpenDispatch]_vars

\* A request accepted without an upgrade callback whose open callback has
\* been called with its handle.
C7_Witness ==
    \E r \in Requests :
        /\ reqs[r].state = "auto"
        /\ last.kind = "open" /\ last.called
        /\ last.h \in ShimsOf(r)

\* C8: an upgrade request whose sec-websocket-protocol is vite-hmr is left
\* untouched: no import is issued for it, its socket is neither upgraded nor
\* destroyed, and no handle and no callback exist for it.
C8_HmrUntouched ==
    /\ \A r \in Requests : reqs[r].proto = "vite-hmr" =>
          /\ reqs[r].state = "skipped"
          /\ reqs[r].socket = "raw"
          /\ ShimsOf(r) = {}
          /\ \A i \in 1..Len(jobs) :
                jobs[i].kind = "upgrade" => jobs[i].target # r
    /\ importCounter =
          Cardinality({r \in Requests : reqs[r].state \notin {"idle", "skipped"}})
              + Len(shims)

\* A vite-hmr request was skipped and a later request was accepted.
C8_Witness ==
    \E r, q \in Requests :
        /\ r < q
        /\ reqs[r].proto = "vite-hmr"
        /\ reqs[q].state = "accepted"

C9_Events ==
    /\ \A h \in Handles, p \in Payloads :
          TransportMessage(h, p) =>
              /\ Len(jobs') = Len(jobs) + 1
              /\ SubSeq(jobs', 1, Len(jobs)) = jobs
              /\ jobs'[Len(jobs')].kind = "message"
              /\ jobs'[Len(jobs')].target = h
              /\ jobs'[Len(jobs')].arg.bytes = p.bytes
    /\ \A h \in Handles, ev \in CloseEvents :
          TransportClose(h, ev) =>
              /\ Len(jobs') = Len(jobs) + 1
              /\ SubSeq(jobs', 1, Len(jobs)) = jobs
              /\ jobs'[Len(jobs')].kind = "close"
              /\ jobs'[Len(jobs')].target = h
              /\ jobs'[Len(jobs')].arg.code = ev.code
              /\ jobs'[Len(jobs')].arg.reason = ev.reason
    /\ \A i \in 1..Len(jobs), res \in DispatchResults :
          Dispatch(i, res) =>
              /\ jobs' = RemoveAt(jobs, i)
              /\ last'.called = (res \in CalledResults)
              /\ last'.called =>
                    /\ last'.kind = jobs[i].kind
                    /\ last'.h = jobs[i].target
                    /\ last'.arg = jobs[i].arg

\* C9: every transport message event of an accepted connection issues
\* exactly one dispatch, which calls message(handle, payload) once with
\* that connection's handle and that payload when the re-imported module has
\* the callback; the close event issues exactly one dispatch, which calls
\* close(handle, code, reason) likewise.
C9_EventsDispatchedOnce == [][C9_Events]_vars

\* After a message event, the close callback of a connection was called
\* with the code and the reason of its close event.
C9_Witness ==
    /\ last.kind = "close" /\ last.called
    /\ last.arg.code = 1000 /\ last.arg.reason = "done"
    /\ importCounter = 2 * MaxConn + 2

C10_FailureContained ==
    \A i \in 1..Len(jobs), res \in {"throws", "rejects"} :
        Dispatch(i, res) =>
            /\ last'.logged
            /\ ~uncaught'
            /\ topicRegistry' = topicRegistry
            /\ readyState' = readyState
            /\ jobs' = RemoveAt(jobs, i)

\* Nothing escaped the bridge, and every pending dispatch can still run.
C10_StillServing ==
    /\ ~uncaught
    /\ \A i \in 1..Len(jobs) : ENABLED Dispatch(i, "returns")

\* C10: an exception thrown, or a promise rejected, in a user open, message
\* or close callback is caught and logged by the bridge: it does not escape,
\* the dispatches of the same and of other connections still run, and the
\* topic registry is as the callback left it.
C10_CallbackFailureCaught == []C10_StillServing /\ [][C10_FailureContained]_vars

\* A callback has just failed and been logged, handles are still subscribed,
\* and the dispatch of a later event of another connection is pending.
C10_Witness ==
    /\ last.called /\ last.logged
    /\ "room" \in DOMAIN topicRegistry
    /\ \E i \in 1..Len(jobs) : jobs[i].id > last.id /\ jobs[i].target # last.h

C11_NotOpenNoIo ==
    \A h \in Handles : readyState[h] # OPEN =>
        /\ \A d \in Datas :
              UserSend(h, d) =>
                  /\ ret' = 0
                  /\ wsSent' = EmptyBag
                  /\ wsCalls' = {}
                  /\ readyState' = readyState
        /\ UserPing(h) =>
              /\ wsCalls' = {}
              /\ wsSent' = EmptyBag
              /\ readyState' = readyState
        /\ UserPong(h) =>
              /\ wsCalls' = {}
              /\ wsSent' = EmptyBag
              /\ readyState' = readyState

\* C11: on a handle that is not open (connecting, closing or closed),
\* send(data) returns 0, ping(data) and pong(data) return without effect, and
\* none of the three calls any method of the underlying transport.
C11_NotOpenNoTransportCall == [][C11_NotOpenNoIo]_vars

\* Handles in each of the three states that are not open, the closing one
\* through a close() that reached the transport, on which send, ping and
\* pong are called without a transport call.
C11_Witness ==
    /\ wsCalls = {"close"}
    /\ \E c, g, k \in Handles :
          /\ readyState[c] = CONNECTING
          /\ readyState[g] = CLOSING
          /\ readyState[k] = CLOSED
          /\ \A h \in {c, g, k} :
                /\ ENABLED (UserPing(h) /\ wsCalls' = {})
                /\ ENABLED (UserPong(h) /\ wsCalls' = {})
                /\ \A d \in Datas : ENABLED (UserSend(h, d) /\ ret' = 0)

C12_CloseOnce ==
    \A h \in Handles :
        /\ (UserClose(h) /\ readyState[h] >= CLOSING) =>
              /\ wsCalls' = {}
              /\ readyState' = readyState
        /\ (UserClose(h) /\ "close" \in wsCalls') =>
              /\ readyState[h] < CLOSING
              /\ readyState'[h] = CLOSING
        /\ readyState[h] >= CLOSING => readyState'[h] >= CLOSING

\* C12: close() on a handle that is already closing or closed calls nothing
\* on the transport and changes nothing; a close() that reaches the
\* transport leaves the handle closing, and a closing or closed handle never
\* becomes open again, so at most one close() of a handle reaches the
\* transport.
C12_CloseIdempotent == [][C12_CloseOnce]_vars

\* A handle that a close() has just put in closing, and on which a second
\* close() is a no-op.
C12_Witness ==
    /\ wsCalls = {"close"}
    /\ \E h \in Handles :
          /\ readyState[h] = CLOSING
          /\ \A g \in Handles \ {h} : readyState[g] = OPEN
          /\ ENABLED (UserClose(h) /\ wsCalls' = {} /\ readyState' = readyState)

C13_Forward == \A h \in Handles : readyState'[h] >= readyState[h]

C13_TerminateStep ==
    \A h \in Handles :
        UserTerminate(h) =>
            /\ "terminate" \in wsCalls'
            /\ readyState'[h] \in {CLOSING, CLOSED}

C15_FailedSendDoesNotAbort ==
    (/\ pub # NoPub
     /\ \E f \in Subscribers(pub.t) \ {pub.p} : readyState[f] # OPEN)
        => \A h \in Recipients(pub.p, pub.t) : h \in DOMAIN wsSent /\ wsSent[h] = 1

\* A publish on the only topic has reached an open subscriber although a
\* closing handle is subscribed to that topic too.
C15_Witness ==
    \E t \in Topics, f, h \in Handles :
        /\ pub # NoPub /\ pub.t = t /\ pub.p \notin {f, h}
        /\ DOMAIN topicRegistry = {t}
        /\ f \in Subscribers(t) /\ readyState[f] = CLOSING
        /\ h \in Subscribers(t) /\ readyState[h] = OPEN
        /\ f < h
        /\ wsSent = [x \in {h} |-> 1]

\* handle(request) has returned.
Served == response # NoResponse

Has(name) == name \in DOMAIN response.headers

\* The request carries the entry's stored validator.
ExactValidator == file.etag # Null /\ request.ifNoneMatch = file.etag

\* C16: for an indexed file with validators enabled, a request whose
\* If-None-Match equals the stored validator exactly gets 304 with no body,
\* whatever its Accept-Encoding and Range headers are; the 304 carries the
\* base headers and neither Content-Encoding nor Content-Range.
C16_ExactValidatorGives304 ==
    (Served /\ ExactValidator) =>
        /\ response.status = 304
        /\ response.body = NoBody
        /\ ~Has("Content-Encoding")
        /\ ~Has("Content-Range")
        /\ HeadersGet(response.headers, "ETag") = file.etag
        /\ HeadersGet(response.headers, "Content-Length") = ToDigits(file.size)

\* A 304 for a request that also accepts br, for a file with a .br sibling,
\* and asks for a range of it.
C16_Witness ==
    /\ Served
    /\ response.status = 304
    /\ file.size = 3 /\ file.has_br
    /\ request.acceptEncoding = StrBr
    /\ request.range = BytesEq \o << "0", "-", "1" >>

AeGzipBr == StrGzip \o << ",", " " >> \o StrBr

\* The codings the client accepts: those its Accept-Encoding lists with a
\* non-zero weight.
ClientAccepts(ae, coding) ==
    CASE coding = StrBr -> ae \in {StrBr, AeGzipBr}
      [] coding = StrGzip -> ae \in {StrGzip, AeGzipBr}

\* C17: when the response is not a 304, the .br sibling is served, with
\* Content-Encoding br and without Content-Length, iff the client accepts br
\* and the sibling exists; otherwise the .gz sibling likewise iff the client
\* accepts gzip and it exists; otherwise no Content-Encoding is set and a 200
\* carries the original bytes.
C17_NegotiationFollowsAcceptance ==
    (Served /\ response.status # 304) =>
        LET br == file.has_br /\ ClientAccepts(request.acceptEncoding, StrBr)
            gz == ~br /\ file.has_gz /\ ClientAccepts(request.acceptEncoding, StrGzip)
        IN /\ br <=> (/\ HeadersGet(response.headers, "Content-Encoding") = StrBr
                      /\ response.body = Body(FileBytes(file, "abs.br"))
                      /\ ~Has("Content-Length"))
           /\ gz <=> (/\ HeadersGet(response.headers, "Content-Encoding") = StrGzip
                      /\ response.body = Body(FileBytes(file, "abs.gz"))
                      /\ ~Has("Content-Length"))
           /\ (~br /\ ~gz) =>
                 /\ ~Has("Content-Encoding")
                 /\ response.status = 200 => response.body = Body(FileBytes(file, "abs"))

\* C18: every response for an indexed file that has a .gz or a .br sibling
\* carries Vary: Accept-Encoding, whatever representation was chosen and
\* whatever the status is.
C18_VaryWheneverSiblingExists ==
    (Served /\ (file.has_br \/ file.has_gz)) =>
        HeadersGet(response.headers, "Vary") = VaryValue

\* Step 4 was evaluated (the response is not the 304 of the conditional
\* check) and selected no encoding.
NoEncodingSelected == Served /\ response.status # 304 /\ ~Has("Content-Encoding")

\* C19: when no encoding was selected and the Range header is a single
\* bytes=<start>-<end> range, end optional and defaulting to size-1, with
\* start <= end < size, the response is 206 with Content-Range
\* bytes <start>-<end>/<size>, Content-Length end-start+1 and a body that is
\* exactly the bytes of the file at offsets start..end.
C19_ValidRangeGives206 ==
    NoEncodingSelected =>
        \A a \in RangeNums, b \in RangeNums \cup {-1} :
            LET end == IF b = -1 THEN file.size - 1 ELSE b
                hdr == BytesEq \o ToDigits(a) \o << "-" >>
                          \o (IF b = -1 THEN << >> ELSE ToDigits(b))
            IN (request.range = hdr /\ a <= end /\ end < file.size) =>
                  /\ response.status = 206
                  /\ HeadersGet(response.headers, "Content-Range") =
                        << "b", "y", "t", "e", "s", " " >> \o ToDigits(a) \o << "-" >>
                            \o ToDigits(end) \o << "/" >> \o ToDigits(file.size)
                  /\ HeadersGet(response.headers, "Content-Length") = ToDigits(end - a + 1)
                  /\ response.body = Body([i \in 1..(end - a + 1) |-> a + i - 1])

\* bytes=1-2 of a three-byte file that has a .br sibling the client did not
\* ask for: the last two bytes are served.
C19_Witness ==
    /\ Served
    /\ file.size = 3 /\ file.has_br
    /\ request.range = BytesEq \o << "1", "-", "2" >>
    /\ response.status = 206
    /\ response.body = Body(<< 1, 2 >>)

\* C20: when no encoding was selected and the parsed single range has
\* start >= size, end >= size or start > end, the response is 416 with
\* Content-Range bytes */<size> and an empty body.
C20_BadRangeGives416 ==
    NoEncodingSelected =>
        \A a \in RangeNums, b \in RangeNums \cup {-1} :
            LET end == IF b = -1 THEN file.size - 1 ELSE b
                hdr == BytesEq \o ToDigits(a) \o << "-" >>
                          \o (IF b = -1 THEN << >> ELSE ToDigits(b))
            IN (request.range = hdr /\ (a >= file.size \/ end >= file.size \/ a > end)) =>
                  /\ response.status = 416
                  /\ HeadersGet(response.headers, "Content-Range") =
                        << "b", "y", "t", "e", "s", " ", "*", "/" >> \o ToDigits(file.size)
                  /\ response.body = NoBody

\* bytes=1-4 of a three-byte file: only the end is out of the file.
C20_Witness ==
    /\ Served
    /\ file.size = 3
    /\ request.range = BytesEq \o << "1", "-", "4" >>
    /\ response.status = 416
    /\ response.body = NoBody

\* The Range value is exactly one bytes=<start>-<end> range, end optional.
SingleRange(str) ==
    LET n == DigitRun(str, 7)
    IN /\ Len(str) >= 8
       /\ SubSeq(str, 1, 6) = BytesEq
       /\ n >= 1
       /\ 7 + n <= Len(str)
       /\ str[7 + n] = "-"
       /\ 7 + n + DigitRun(str, 8 + n) = Len(str)

\* C21: a Range header value that is not exactly one bytes=<start>-<end>
\* range (a list of ranges, a suffix range, another unit, malformed text) is
\* treated as if the request had no Range header: the response is the one
\* the same request without Range gets, and is neither 206 nor 416.
C21_NonSingleRangeIgnored ==
    (Served /\ request.range # Null /\ ~SingleRange(request.range)) =>
        /\ response = Handle(file, [request EXCEPT !.range = Null])
        /\ response.status \notin {206, 416}

\* The regular files below a directory, found by looking each path up.
RECURSIVE NodeAt(_, _)
NodeAt(entries, path) ==
    IF path \in DOMAIN entries
    THEN entries[path]
    ELSE IF \E i \in 1..Len(path) :
               /\ path[i] = "/"
               /\ SubSeq(path, 1, i - 1) \in DOMAIN entries
               /\ entries[SubSeq(path, 1, i - 1)].kind = "dir"
         THEN LET i == CHOOSE j \in 1..Len(path) :
                           /\ path[j] = "/"
                           /\ SubSeq(path, 1, j - 1) \in DOMAIN entries
                           /\ entries[SubSeq(path, 1, j - 1)].kind = "dir"
              IN NodeAt(entries[SubSeq(path, 1, i - 1)].entries,
                        SubSeq(path, i + 1, Len(path)))
         ELSE Missing

IsPrecompressedName(path) == EndsWith(path, DotBr) \/ EndsWith(path, DotGz)

\* C22: the index has no key for a file whose name ends in .br or .gz: its
\* keys are exactly the /-prefixed root-relative paths of the regular files
\* under the root that do not end in .br or .gz, and a request for the path
\* of a precompressed sibling gets the not-found signal.
C22_IndexExcludesPrecompressed ==
    responder = "handle" =>
        /\ \A p \in Pathnames :
              p \in DOMAIN files <=>
                 /\ Len(p) > 1
                 /\ NodeAt(dir.entries, SubSeq(p, 2, Len(p))).kind = "file"
                 /\ ~IsPrecompressedName(p)
        /\ DOMAIN files \subseteq Pathnames
        /\ (response # NoResponse /\ IsPrecompressedName(request.pathname))
              => response = NullSignal

\* A request for /a.br was answered with the not-found signal by a responder
\* whose directory holds a, a.br and d/a.gz, and whose index has /a.
C22_Witness ==
    /\ responder = "handle"
    /\ NodeAt(dir.entries, NameA \o DotBr).kind = "file"
    /\ NodeAt(dir.entries, NameD \o << "/" >> \o NameA \o DotGz).kind = "file"
    /\ << "/" >> \o NameA \in DOMAIN files
    /\ files[<< "/" >> \o NameA].has_br
    /\ response = NullSignal
    /\ request.pathname = << "/" >> \o NameA \o DotBr

\* C23: building the responder for a root directory that does not exist
\* does not fail, and the responder answers every request with the
\* not-found signal.
C23_MissingRootServesNothing ==
    dir = Missing =>
        /\ responder \in {"none", "null"}
        /\ response \in {NoResponse, NullSignal}

\* A responder built over a missing directory has answered a request.
C23_Witness ==
    /\ dir = Missing
    /\ responder = "null"
    /\ response = NullSignal

\* The production calls that went through the upgrade branch.
ProdDecided == {r \in 1..MaxReq : fetches.reqs[r].state = "done" /\ fetches.reqs[r].ws}

\* C24: for the same behaviour of the user upgrade callback the development
\* bridge and the production handler decide alike: the connection is
\* accepted iff the module defines no upgrade callback or the callback
\* called the server's upgrade method; otherwise no connection is opened.
C24_SameUpgradeDecision ==
    \A r \in ProdDecided :
        LET f == fetches.reqs[r]
        IN (f.mod # "fail") =>
              /\ f.upgraded = HandleUpgradeBody(f.mod, f.beh).accept
              /\ f.upgraded <=> (f.mod = "noUpgrade" \/ f.beh.calls)

\* C25: with WebSocket enabled, a request with the upgrade headers goes to
\* the upgrade logic before any responder, and once its upgrade has been
\* accepted no responder (client assets, prerendered pages, application) is
\* handed the request.
C25_AcceptedUpgradeNotServed ==
    \A r \in 1..MaxReq :
        LET f == fetches.reqs[r]
        IN /\ (f.ws /\ f.answeredBy # "none") => f.mod # "none"
           /\ (f.ws /\ f.upgraded) => f.answeredBy = "none"

PublicBinaryTypes == {"uint8array", "arraybuffer"}

\* A read returns the public value of what the transport holds; a write
\* stores the transport's name of the value written.
C26_BinaryTypeMapped ==
    /\ lastBinary.op = "get" =>
          /\ binaryType[lastBinary.h] \in {"nodebuffer", "fragments"}
                => lastBinary.value = "uint8array"
          /\ binaryType[lastBinary.h] = "arraybuffer" => lastBinary.value = "arraybuffer"
    /\ lastBinary.op = "set" =>
          /\ lastBinary.value = "uint8array" => binaryType[lastBinary.h] = "nodebuffer"
          /\ lastBinary.value = "arraybuffer" => binaryType[lastBinary.h] = "arraybuffer"

\* A read of the handle that was just written with a public value returns
\* that value.
C26_ReadBack ==
    \A h \in Handles :
        (/\ lastBinary.op = "set" /\ lastBinary.h = h
         /\ lastBinary.value \in PublicBinaryTypes
         /\ UserGetBinaryType(h))
            => lastBinary'.value = lastBinary.value

\* C26: reading binaryType yields uint8array when the transport holds
\* nodebuffer or fragments and arraybuffer when it holds arraybuffer; writing
\* uint8array stores nodebuffer and writing arraybuffer stores arraybuffer;
\* so writing either public value and reading it back returns that value.
C26_BinaryTypeRoundTrip == []C26_BinaryTypeMapped /\ [][C26_ReadBack]_vars

\* uint8array was read from a handle whose transport holds fragments while
\* another handle's transport holds arraybuffer.
C26_Witness ==
    /\ lastBinary.op = "get"
    /\ binaryType[lastBinary.h] = "fragments"
    /\ lastBinary.value = "uint8array"
    /\ \E h \in Handles : binaryType[h] = "arraybuffer"

\* C27: the user message callback is handed a binary transport message as
\* a byte-array value (Uint8Array) and a text message as a plain string.
C27_MessageTypes ==
    (last.called /\ last.kind = "message") =>
        \A p \in Payloads :
            last.arg.bytes = p.bytes =>
                last.arg.type = IF p.isBinary THEN "Uint8Array" ELSE "string"

\* In every shutdown, server.stop() precedes each listener call.
C30_StopFirst ==
    \A i \in 1..Len(proc.trace) :
        proc.trace[i].call = "listener" =>
            \E j \in 1..(i - 1) :
                /\ proc.trace[j].call = "server.stop"
                /\ proc.trace[j].run = proc.trace[i].run

\* The shutdown started by the k-th signal called a listener that throws or
\* rejects.
ListenerFailed(k) ==
    /\ k \in 1..Len(proc.runs)
    /\ proc.runs[k].outcome = "rejected"

Completed(k) ==
    /\ k \in 1..Len(proc.runs)
    /\ proc.runs[k].state = "completed"

\* C30: in a production shutdown triggered by SIGINT or SIGTERM,
\* server.stop() is called before any sveltekit:shutdown listener is
\* invoked, and a listener that throws does not keep the shutdown routine
\* from completing.
C30_StopThenListeners ==
    /\ []C30_StopFirst
    /\ \A k \in 1..MaxSignals : ListenerFailed(k) ~> Completed(k)

\* A shutdown whose first listener threw has completed, after server.stop()
\* and that listener were called; the second listener was never called.
C30_Witness ==
    /\ Len(proc.listeners) = 2
    /\ proc.listeners[1] = "throws"
    /\ Completed(1)
    /\ proc.runs[1].caught
    /\ Len(proc.trace) = 2
    /\ proc.trace[1].call = "server.stop"
    /\ proc.trace[2].call = "listener"

\* A listener registration and the nextTick callbacks it adds.
C28_Registration ==
    \A fn \in Fns, event \in ProcessEvents :
        Register(fn, event) =>
            LET added == SubSeq(plugin'.ticks, Len(plugin.ticks) + 1, Len(plugin'.ticks))
            IN /\ plugin'.listeners[fn].last = NoCall
               /\ (/\ StartsWithSveltekit(event)
                   /\ event \in DOMAIN plugin.lastEmit
                   /\ ~plugin.completed)
                     => added = << [fn |-> fn, event |-> event,
                                    args |-> plugin.lastEmit[event]] >>
               /\ (plugin.completed /\ ~plugin.rewired) => added = << >>
               /\ ~StartsWithSveltekit(event) => added = << >>

\* A nextTick callback calls its listener with the arguments it was queued
\* with.
C28_Replay ==
    Tick => LET t == Head(plugin.ticks)
            IN plugin'.listeners[t.fn].last = [via |-> "replay", args |-> t.args]

C29_ShutdownOnce ==
    /\ \A s \in Servers : plugin.servers[s].shutdowns <= 1
    /\ Shutdown \in DOMAIN plugin.lastEmit => plugin.lastEmit[Shutdown] = "close"
    /\ \A fn \in Fns :
          (plugin.listeners[fn].event = Shutdown /\ plugin.listeners[fn].last # NoCall)
              => plugin.listeners[fn].last.args = "close"

\* The close event of a server fired twice; its listener was called by the
\* one shutdown emit.
C29_Witness ==
    \E s \in Servers, fn \in Fns :
        /\ plugin.servers[s].closes = 2
        /\ plugin.servers[s].shutdowns = 1
        /\ plugin.listeners[fn].event = Shutdown
        /\ plugin.listeners[fn].last = [via |-> "emit", args |-> "close"]

\* The path a request is matched by, and that path with its trailing slash
\* toggled.
C31_Path == StripBase(route.base, route.pathname)
C31_Toggled ==
    IF C31_Path[Len(C31_Path)] = "/"
    THEN SubSeq(C31_Path, 1, Len(C31_Path) - 1)
    ELSE Append(C31_Path, "/")

\* C31: a request that misses the client assets is served by the
\* prerendered responder when its path is a prerendered path the responder
\* has; otherwise it is answered 308 with Location = base path + toggled
\* path + query string when the toggled path is a prerendered path;
\* otherwise it reaches the application.
C31_PrerenderedChain ==
    (route.by # "none" /\ C31_Path \notin route.client) =>
        IF C31_Path \in route.prerendered /\ C31_Path \in route.pages
        THEN route.by = "prerendered"
        ELSE IF C31_Toggled \in route.prerendered
        THEN /\ route.by = "redirect"
             /\ route.status = 308
             /\ route.location = route.base \o C31_Toggled \o route.search
        ELSE route.by = "app"

\* /p/a/?q under base path /p, where only /a is prerendered, was redirected
\* to /p/a?q.
C31_Witness ==
    /\ route.base = << "/", "p" >>
    /\ route.pathname = << "/", "p", "/", "a", "/" >>
    /\ route.search = << "?", "q" >>
    /\ << "/", "a" >> \in route.prerendered
    /\ << "/", "a", "/" >> \notin route.prerendered
    /\ route.by = "redirect"
    /\ route.location = << "/", "p", "/", "a", "?", "q" >>

\* Step 4 selected an encoding: the response is not the 304 of the
\* conditional check and carries the Content-Encoding of a sibling.
EncodingSelected ==
    /\ Served /\ response.status # 304
    /\ HeadersGet(response.headers, "Content-Encoding") \in {StrBr, StrGzip}

\* C32: when an encoding was selected, a Range header on the request is not
\* evaluated: the response is 200 with the complete precompressed sibling
\* and its Content-Encoding, has no Content-Range, and is never 206 or 416.
C32_RangeIgnoredWhenEncoded ==
    (EncodingSelected /\ request.range # Null) =>
        /\ response.status = 200
        /\ ~Has("Content-Range")
        /\ response.body =
              Body(FileBytes(file, IF HeadersGet(response.headers, "Content-Encoding") = StrBr
                                   THEN "abs.br" ELSE "abs.gz"))

\* bytes=1-4 of a three-byte file, unsatisfiable on the file itself, from a
\* client that accepts gzip: the whole .gz sibling is served.
C32_Witness ==
    /\ Served
    /\ file.size = 3 /\ file.has_gz
    /\ request.acceptEncoding = StrGzip
    /\ request.range = BytesEq \o << "1", "-", "4" >>
    /\ response.status = 200
    /\ HeadersGet(response.headers, "Content-Encoding") = StrGzip
    /\ response.body = Body(FileBytes(file, "abs.gz"))

\* C33: once a handle has been closed and its cleanup has run it is in no
\* topic's subscriber set, whatever is called on it afterwards; a subscribe
\* on a closed handle neither creates nor keeps an entry that contains it.
C33_ClosedHandleInNoTopic ==
    \A h \in Handles :
        readyState[h] = CLOSED =>
            \A t \in DOMAIN topicRegistry : h \notin topicRegistry[t]

\* A callback is called for a connection whose latest called callback
\* belongs to a later transport event (the import counter numbers the
\* events in the order they arrived).
C34_CalledOutOfOrder ==
    \E i \in 1..Len(jobs), res \in DispatchResults :
        /\ Dispatch(i, res)
        /\ last.called /\ last'.called
        /\ last.h = last'.h
        /\ last.id > last'.id

\* C34: for each accepted connection the user callbacks are called in
\* transport order: open before any message callback, message callbacks in
\* arrival order, close after all of them.
C34_CallbacksInTransportOrder == [][~C34_CalledOutOfOrder]_vars

\* The close callback of a connection is called while its handle is in a
\* subscriber set.
C35_CloseSeesSubscription ==
    \E i \in 1..Len(jobs) :
        /\ jobs[i].kind = "close"
        /\ \/ \E res \in CalledResults : Dispatch(i, res)
           \/ \E t \in Topics : CallbackSubscribes(i, t)
        /\ \E t \in Topics : IsSubscribed(topicRegistry, jobs[i].target, t)

\* C35: when a connection's transport closes, its handle is removed from
\* every topic before the user's close callback for it runs: when that
\* callback is called, isSubscribed is false for every topic and the handle
\* is in no subscriber set.
C35_CleanupBeforeCloseCallback == [][~C35_CloseSeesSubscription]_vars

\* A close or unsubscribe step of handle h leaves isSubscribed of every
\* other handle as it was.
C36_OthersKept(h) ==
    \A g \in Handles \ {h}, u \in Topics :
        IsSubscribed(topicRegistry', g, u) = IsSubscribed(topicRegistry, g, u)

\* C36: closing or unsubscribing one handle changes only that handle's
\* memberships: for every other handle and every topic isSubscribed returns
\* after the operation what it returned before.
C36_OnlyOwnMemberships ==
    [][\A h \in Handles :
          /\ (\E t \in Topics : UserUnsubscribe(h, t)) => C36_OthersKept(h)
          /\ (UserClose(h) \/ UserTerminate(h) \/ ShimWsClose(h)) => C36_OthersKept(h)]_vars

\* Handle 1 has closed and left every topic, handle 2 has unsubscribed from
\* one topic; every other membership is as it was at the start.
C36_Witness ==
    /\ readyState[1] = CLOSED
    /\ \A t \in Topics : ~IsSubscribed(topicRegistry, 1, t)
    /\ \E t \in Topics :
          /\ ~IsSubscribed(topicRegistry, 2, t)
          /\ \A u \in Topics \ {t} : IsSubscribed(topicRegistry, 2, u)
    /\ \A g \in Handles \ {1, 2}, t \in Topics : IsSubscribed(topicRegistry, g, t)

\* The calls of one kind the process has made so far.
C37_Calls(call, listener) ==
    {i \in 1..Len(proc.trace) :
        proc.trace[i].call = call /\ proc.trace[i].listener = listener}

\* C37: in production sveltekit:shutdown is emitted to the listeners at most
\* once per process and server.stop() is called at most once, however many
\* SIGINT or SIGTERM signals arrive.
C37_ShutdownOncePerProcess ==
    /\ Cardinality(C37_Calls("server.stop", 0)) <= 1
    /\ \A l \in 1..Len(proc.listeners) : Cardinality(C37_Calls("listener", l)) <= 1

\* A server the plugin wired that has emitted its startup event and has
\* not closed.
C38_Running(s) ==
    /\ plugin.servers[s].wired /\ plugin.servers[s].listening
    /\ plugin.servers[s].closes = 0

\* The shutdown emit of server s has completed.
C38_ShutDown(s) == plugin.servers[s].emit = "done"

\* A startup listener is registered late while one server is running and
\* the other has shut down, and no replay of a running server's startup is
\* queued for it.
C38_ReplayLost ==
    \E fn \in Fns :
        /\ Register(fn, Startup)
        /\ \E s \in Servers : C38_Running(s) /\ \E o \in Servers \ {s} : C38_ShutDown(o)
        /\ ~(/\ Len(plugin'.ticks) = Len(plugin.ticks) + 1
             /\ LET t == plugin'.ticks[Len(plugin'.ticks)]
                IN t.fn = fn /\ t.event = Startup /\ C38_Running(t.args))

\* C38: when two httpServers are wired at overlapping times, the shutdown
\* of one does not disable sticky replay for the other: a listener
\* registered late while the other server is still running is replayed that
\* server's startup event.
C38_ReplaySurvivesOtherShutdown == [][~C38_ReplayLost]_vars

\* C39: after a wired httpServer has emitted close, no dev WebSocket
\* upgrade listener remains attached to it and its dev WebSocket server is
\* closed, also when the close event fires before the import that starts
\* the dev WebSocket server has resolved.
C39_NoWebSocketAfterClose ==
    \A s \in Servers : plugin.servers[s].closes > 0 => plugin.servers[s].ws # "active"

====
